---- MODULE Spec2Model ----
(***************************************************************************)
(* A model of SamBot's content extraction pipeline:                        *)
(*   - utils/rate_limiter.py      RateLimiter (the shared rate gate)        *)
(*   - extractors/youtube.py      YouTubeExtractor (yt-dlp, VTT captions)   *)
(*   - extractor.py, database.py  ContentExtractor.extract and its store    *)
(*   - src/extractors/youtube.py  the transcript-api YouTubeExtractor       *)
(*   - summarizers/deepseek.py    DeepSeekSummarizer._check_rate_limits     *)
(* Each pipeline has its own specification over the shared variables; the   *)
(* variables a specification does not use keep their initial value.         *)
(***************************************************************************)
EXTENDS Integers, Sequences, FiniteSets, TLC

VARIABLES
    \* RateLimiter and YouTubeExtractor.get_video_info_and_transcript
    now,                \* time.time()
    last_request_time,  \* RateLimiter.last_request_time: <<>> is None, <<t>> a time
    ypc,                \* per thread: position in get_video_info_and_transcript
    ywake,              \* per thread: when its time.sleep(wait_time) ends
    yidx,               \* per thread: index of lang in preferred_languages
    ytext,              \* per thread: transcript_text
    grants,             \* the times at which wait_if_needed returned, in order
    ylog,               \* per thread: acquires and outbound calls, in order
    \* ContentExtractor.extract (both versions), YouTubeExtractor.extract and the store
    service,            \* which extractor the process runs: "v1", "v2" or "legacy"
    pc,                 \* per task: position in extract ("idle" between requests)
    run,                \* per task: the locals and the result of its extract call
    original_content,   \* the rows of table original_content, in insertion order
    content_chunks,     \* the rows of table content_chunks
    first_done,         \* per url: content_id of the first extract that succeeded (0: none)
    started,            \* the number of extract calls begun
    \* select_best_transcript, applied to drawn inputs
    sel_pc, sel_transcripts, sel_preferred, sel_allow, sel_result,
    \* the chunking of one video
    ch_pc,              \* position in the chunking pipeline ("idle": not running)
    ch_description,     \* the video description: its chapter lines, in order
    ch_duration,        \* video_info.duration, in seconds
    ch_transcript,      \* transcript_segments
    ch_chapters,        \* what extract_chapters returned
    ch_info,            \* video_info.chapters (NoChapters is None)
    ch_args,            \* the chapters handed to chunk_by_chapters
    ch_strategy,        \* strategy_type
    ch_chunks,          \* chunks_data
    \* FixedSizeChunker.chunk, applied to drawn inputs
    fx_pc,              \* position in chunk ("idle": not running)
    fx_self,            \* the chunker: chunk_size and overlap
    fx_content,         \* content: its sentences, in order
    fx_segments,        \* transcript_segments (<<>>: none)
    fx_duration,        \* video_duration
    fx_text_chunks,     \* text_chunks: per chunk the sentences joined
    fx_timestamps,      \* timestamps
    fx_cursors,         \* segment_idx after each chunk of estimate_timestamps
    fx_chunks,          \* the chunks returned
    \* caption parsing, applied to drawn payloads
    cap_pc,             \* which parser is to run ("idle": none, "done": it returned)
    cap_shape,          \* "vtt": cue blocks, "entries": transcript API entries
    cap_vtt_content,    \* vtt_content: its cue blocks, in order
    cap_transcript_data,\* transcript_data: the fetched entries, in order
    cap_full_text,      \* the full text returned
    cap_segments,       \* the segments returned
    \* DeepSeekSummarizer._check_rate_limits
    rl_now,             \* time.time()
    rl_rate_limiter,    \* self.rate_limiter: requests, max_per_minute, max_per_hour
    rl_before,          \* rate_limiter['requests'] as the last call found it
    rl_at,              \* the time of the last call (<<>>: no call yet)
    rl_raised,          \* the RateLimitError of the last call (None: it returned)
    rl_calls,           \* the number of calls made
    rl_ticks            \* the number of times the clock has moved

gateVars == <<now, last_request_time, ypc, ywake, yidx, ytext, grants, ylog>>

extractVars == <<service, pc, run, original_content, content_chunks, first_done, started>>

selVars == <<sel_pc, sel_transcripts, sel_preferred, sel_allow, sel_result>>

chapVars == <<ch_pc, ch_description, ch_duration, ch_transcript, ch_chapters, ch_info,
              ch_args, ch_strategy, ch_chunks>>

fixVars == <<fx_pc, fx_self, fx_content, fx_segments, fx_duration, fx_text_chunks,
             fx_timestamps, fx_cursors, fx_chunks>>

capVars == <<cap_pc, cap_shape, cap_vtt_content, cap_transcript_data, cap_full_text,
             cap_segments>>

rlVars == <<rl_now, rl_rate_limiter, rl_before, rl_at, rl_raised, rl_calls, rl_ticks>>

vars == <<gateVars, extractVars, selVars, chapVars, fixVars, capVars, rlVars>>

----------------------------------------------------------------------------
(* Bounds of the model *)
NumThreads == 2
MaxTime == 120
TickStep == 30
NumTasks == 2
MaxRuns == 2
TextChunks == 2
MaxTracks == 2
MaxLines == 3
MaxSentences == 3
MaxRepeat == 8
MaxBlocks == 3
MaxCalls == 3
MaxTicks == 2

(* Program constants *)
RequestsPerMinute == 1
max_video_duration == 7200
chunk_size == 500
overlap == 50
lookahead == 50
max_per_minute == 60
max_per_hour == 1000

Threads == 1..NumThreads
Tasks == 1..NumTasks

\* Python's None, where a value is a string or absent
None == "None"

----------------------------------------------------------------------------
(* RateLimiter (utils/rate_limiter.py) *)

MinInterval == 60 \div RequestsPerMinute

\* the positions of a thread at which it has yet to read the clock
BeforeGrant == {"start", "w_check", "w_first", "w_elapsed", "w_sleep", "w_now"}

\* time passes: the clock every time.time() reads (followed for as long as some
\* thread has yet to read it)
Tick ==
    /\ now + TickStep <= MaxTime
    /\ \E t \in Threads : ypc[t] \in BeforeGrant
    /\ now' = now + TickStep
    /\ UNCHANGED <<last_request_time, ypc, ywake, yidx, ytext, grants, ylog>>

\* a variant that goes to yt-dlp without passing the gate
RunInExecutorSkipped(t) ==
    /\ ypc[t] = "start"
    /\ ypc' = [ypc EXCEPT ![t] = "extract_info"]
    /\ UNCHANGED <<now, last_request_time, ywake, yidx, ytext, grants, ylog>>

\* get_video_info_and_transcript hands wait_if_needed to an executor thread
RunInExecutor(t) ==
    /\ ypc[t] = "start"
    /\ ypc' = [ypc EXCEPT ![t] = "w_check"]
    /\ UNCHANGED <<now, last_request_time, ywake, yidx, ytext, grants, ylog>>

\* if self.last_request_time is None:
WaitCheckNone(t) ==
    /\ ypc[t] = "w_check"
    /\ ypc' = [ypc EXCEPT ![t] = IF last_request_time = <<>> THEN "w_first" ELSE "w_elapsed"]
    /\ UNCHANGED <<now, last_request_time, ywake, yidx, ytext, grants, ylog>>

\* self.last_request_time = time.time(); return
Granted(t) ==
    /\ last_request_time' = <<now>>
    /\ grants' = Append(grants, now)
    /\ ypc' = [ypc EXCEPT ![t] = "extract_info"]
    /\ ylog' = [ylog EXCEPT ![t] = Append(@, "acquire")]
    /\ UNCHANGED <<now, ywake, yidx, ytext>>

\* the first call: record the time, return 0.0
WaitFirst(t) ==
    /\ ypc[t] = "w_first"
    /\ Granted(t)

\* elapsed = time.time() - self.last_request_time; if elapsed < self.min_interval
WaitElapsed(t) ==
    /\ ypc[t] = "w_elapsed"
    /\ LET elapsed == now - last_request_time[1]
       IN  IF elapsed < MinInterval
           THEN /\ ypc' = [ypc EXCEPT ![t] = "w_sleep"]
                /\ ywake' = [ywake EXCEPT ![t] = now + (MinInterval - elapsed)]
           ELSE /\ ypc' = [ypc EXCEPT ![t] = "w_now"]
                /\ UNCHANGED ywake
    /\ UNCHANGED <<now, last_request_time, yidx, ytext, grants, ylog>>

\* time.sleep(wait_time) is over: record the time, return wait_time
WaitWake(t) ==
    /\ ypc[t] = "w_sleep"
    /\ now >= ywake[t]
    /\ Granted(t)

\* no wait was needed: record the time, return 0.0
WaitNow(t) ==
    /\ ypc[t] = "w_now"
    /\ Granted(t)

wait_if_needed(t) ==
    \/ WaitCheckNone(t)
    \/ WaitFirst(t)
    \/ WaitElapsed(t)
    \/ WaitWake(t)
    \/ WaitNow(t)

----------------------------------------------------------------------------
(* YouTubeExtractor.get_video_info_and_transcript                          *)
(* (services/content_extractor/extractors/youtube.py)                      *)

\* extract_content passes [request.language, 'en'], language defaulting to "ru"
preferred_languages == <<"ru", "en">>

\* what the GET of a VTT url gives: a 200 whose cues parse to text, a 200 that
\* parses to no text, or another status / an exception
FetchOutcomes == {"text", "empty", "fail"}

\* info = ydl.extract_info(url, download=False), in an executor thread: the one
\* call that resolves the metadata and lists the caption tracks
ExtractInfo(t) ==
    /\ ypc[t] = "extract_info"
    /\ ylog' = [ylog EXCEPT ![t] = Append(@, "extract_info")]
    /\ \/ \* yt-dlp raised, or gave no info: return None, None, None, None
          ypc' = [ypc EXCEPT ![t] = "failed"]
       \/ ypc' = [ypc EXCEPT ![t] = "manual"]
    /\ UNCHANGED <<now, last_request_time, ywake, yidx, ytext, grants>>

\* one turn of "for lang in preferred_languages" over info's subtitles or
\* automatic_captions; `after` is where the code goes when the loop ends
\* without a transcript. Whether info lists a VTT track for lang is read here,
\* once per loop and language.
CaptionLoop(t, here, after) ==
    /\ ypc[t] = here
    /\ IF yidx[t] > Len(preferred_languages)
       THEN /\ ypc' = [ypc EXCEPT ![t] = after]
            /\ yidx' = [yidx EXCEPT ![t] = 1]
            /\ UNCHANGED <<ytext, ylog>>
       ELSE \E listed \in BOOLEAN :
            IF ~listed
            THEN /\ yidx' = [yidx EXCEPT ![t] = @ + 1]
                 /\ UNCHANGED <<ypc, ytext, ylog>>
            ELSE \* session.get(vtt_url): not preceded by wait_if_needed
                 /\ ylog' = [ylog EXCEPT ![t] = Append(@, "fetch")]
                 /\ \E outcome \in FetchOutcomes :
                      IF outcome = "text"
                      THEN /\ ytext' = [ytext EXCEPT ![t] = "text"]
                           /\ ypc' = [ypc EXCEPT ![t] = "done"]
                           /\ yidx' = [yidx EXCEPT ![t] = 1]
                      ELSE /\ yidx' = [yidx EXCEPT ![t] = @ + 1]
                           /\ UNCHANGED <<ypc, ytext>>
    /\ UNCHANGED <<now, last_request_time, ywake, grants>>

\* "Try manual subtitles first"
ManualLoop(t) == CaptionLoop(t, "manual", "auto")

\* "Try automatic captions if no manual transcript"
AutoLoop(t) == CaptionLoop(t, "auto", "done")

----------------------------------------------------------------------------
(* The store: Database (services/content_extractor/database.py)            *)

YT == "https://www.youtube.com/watch?v=dQw4w9WgXcQ"
YTS == "https://youtu.be/dQw4w9WgXcQ"
YTC == "https://www.youtube.com/@sambot"
WEB == "https://vimeo.com/76979871"

Urls == {YT, YTS, YTC, WEB}

\* the URLs requested of a service: POST /extract is for YouTube videos, and is
\* given both URLs of the one video; the ContentExtractor takes any URL
RequestUrls(svc) == IF svc = "main" THEN {YT, YTS, WEB} ELSE {YT, YTC, WEB}

\* 'youtube.com' in url or 'youtu.be' in url
IsYouTubeUrl(u) == u \in {YT, YTS, YTC}

\* re.search(r'(?:v=|/)([a-zA-Z0-9_-]{11})', url)
HasVideoId(u) == u \in {YT, YTS}

\* validate_youtube_url / extract_video_id: the watch, youtu.be, embed and /v/ patterns
ValidYouTubeUrl(u) == u \in {YT, YTS}

\* info.get('extractor') of yt-dlp for the url
Platform(u) == IF IsYouTubeUrl(u) THEN "youtube" ELSE "vimeo"

\* the text of the transcript of u, the same whenever it is obtained (the remote
\* resource does not change) and another for another resource; the watch URL
\* and the youtu.be URL are of one video
TextOf(u) == CASE u \in {YT, YTS} -> "text of the video"
               [] u = YTC -> "text of the channel page"
               [] OTHER -> "text of the vimeo video"

\* hashlib.sha256(text.encode()).hexdigest(), of raw_content or ""
generate_hash(text) == IF text = None THEN <<"sha256", "">> ELSE <<"sha256", text>>

\* SELECT ... FROM original_content WHERE url_hash = $1
Matches(u) == {i \in DOMAIN original_content : original_content[i].original_url = u}

\* (SELECT COUNT(*) FROM content_chunks WHERE content_id = oc.id)
ChunkCount(id) == Cardinality({c \in content_chunks : c.content_id = id})

\* the rows that one INSERT INTO content_chunks per chunk adds for content id:
\* chunk_index 0, 1, ... and a serial id of the row
NewChunks(id) ==
    {[id |-> Cardinality(content_chunks) + i + 1, content_id |-> id, chunk_index |-> i] :
       i \in 0..(TextChunks - 1)}

----------------------------------------------------------------------------
(* One extract call *)

IdleRun ==
    [url |-> None, prior |-> 0, cached_hit |-> FALSE,
     primary |-> "untried", fallback |-> "untried", metadata |-> None,
     platform |-> None, duration |-> 0, caption |-> None, audio_file |-> None,
     download |-> "untried", whisper |-> "untried", transcript |-> None,
     strategy |-> "audio", extraction_method |-> "yt-dlp_audio",
     content_id |-> 0, total_chunks |-> 0, has_transcript |-> FALSE,
     status |-> "running", error |-> None, steps |-> <<>>,
     rows_written |-> 0, chunks_written |-> 0]

\* the call has made step s
Step(r, s) == [r EXCEPT !.steps = Append(@, s)]

\* extract returns r (or raises, r.status = "error")
Finish(t, r) ==
    /\ pc' = [pc EXCEPT ![t] = "done"]
    /\ run' = [run EXCEPT ![t] = r]
    /\ first_done' = IF r.status = "success" /\ first_done[r.url] = 0
                     THEN [first_done EXCEPT ![r.url] = r.content_id]
                     ELSE first_done

\* an exception leaves extract
Raise(t, r, kind) == Finish(t, [r EXCEPT !.status = "error", !.error = kind])

\* extract goes on at position p
Goto(t, r, p) ==
    /\ pc' = [pc EXCEPT ![t] = p]
    /\ run' = [run EXCEPT ![t] = r]
    /\ UNCHANGED first_done

\* a request arrives: extract(url) begins
Start(t, u) ==
    /\ pc[t] = "idle"
    /\ u \in RequestUrls(service)
    /\ started < MaxRuns
    /\ started' = started + 1
    /\ Goto(t, [IdleRun EXCEPT !.url = u, !.prior = first_done[u]],
            CASE service = "legacy" -> "validate"
              [] service = "main" -> "youtube_extract"
              [] OTHER -> "check_cache")
    /\ UNCHANGED <<service, original_content, content_chunks>>

\* the caller has the result; the task is free for the next request
Return(t) ==
    /\ pc[t] = "done"
    /\ Goto(t, IdleRun, "idle")
    /\ UNCHANGED <<service, original_content, content_chunks, started>>

----------------------------------------------------------------------------
(* ContentExtractor.extract (services/content_extractor/extractor.py, and  *)
(* services/content_extractor_v2/extractor.py where service = "v2")        *)

\* a variant that notes the hit and goes on to extract all the same
ReturnCachedAndGoOn(t, r, row) ==
    Goto(t, [r EXCEPT !.cached_hit = TRUE], "metadata")

\* if cached: return {"status": "cached", "content_id": cached['id'], ...}
ReturnCached(t, r, row) ==
    Finish(t, [r EXCEPT !.cached_hit = TRUE,
                        !.status = "cached",
                        !.content_id = row.id,
                        !.strategy = IF row.raw_content # None THEN "transcript" ELSE "audio",
                        !.extraction_method = row.extraction_method,
                        !.has_transcript = row.raw_content # None,
                        !.total_chunks = ChunkCount(row.id)])

\* Step 1: cached = await db.check_cache(url); fetchrow gives one of the rows
\* of that url_hash
CheckCache(t) ==
    /\ pc[t] = "check_cache"
    /\ LET r == Step(run[t], "check_cache")
       IN  IF Matches(r.url) # {}
           THEN \E i \in Matches(r.url) : ReturnCached(t, r, original_content[i])
           ELSE Goto(t, r, "metadata")
    /\ UNCHANGED <<service, original_content, content_chunks, started>>

\* what _extract_metadata_from_youtube_api gives: the metadata; None for want of
\* YOUTUBE_API_KEY; None after a status other than 200, no items or an exception
ApiOutcomes == {"ok", "no_key", "failed"}

\* a variant that asks yt-dlp as well after the API has answered
MetadataFromApiThenYtDlp(t) ==
    /\ pc[t] = "metadata"
    /\ IF service = "v1" /\ IsYouTubeUrl(run[t].url) /\ HasVideoId(run[t].url)
       THEN \E outcome \in ApiOutcomes :
              Goto(t, [Step(run[t], "youtube_api") EXCEPT
                          !.primary = outcome,
                          !.metadata = IF outcome = "ok" THEN "youtube_api" ELSE None,
                          !.platform = IF outcome = "ok" THEN "youtube" ELSE None],
                   "metadata_fallback")
       ELSE Goto(t, run[t], "metadata_fallback")
    /\ UNCHANGED <<service, original_content, content_chunks, started>>

\* Step 2, _extract_metadata: "Try YouTube Data API v3 first for YouTube videos"
MetadataFromApi(t) ==
    /\ pc[t] = "metadata"
    /\ IF service = "v1" /\ IsYouTubeUrl(run[t].url) /\ HasVideoId(run[t].url)
       THEN \E outcome \in ApiOutcomes :
              LET r == [Step(run[t], "youtube_api") EXCEPT !.primary = outcome]
              IN  IF outcome = "ok"
                  THEN Goto(t, [r EXCEPT !.metadata = "youtube_api",
                                         !.platform = "youtube"], "transcript")
                  ELSE Goto(t, r, "metadata_fallback")
       ELSE Goto(t, run[t], "metadata_fallback")
    /\ UNCHANGED <<service, original_content, content_chunks, started>>

\* what ydl.extract_info(url, download=False) gives: info, nothing, an exception
YtDlpOutcomes == {"ok", "none", "raised"}

\* _extract_metadata: "Fallback to yt-dlp for all platforms"; extract raises
\* ValueError("Failed to extract metadata") when it gives None
MetadataFromYtDlp(t) ==
    /\ pc[t] = "metadata_fallback"
    /\ \E outcome \in YtDlpOutcomes :
         LET r == [Step(run[t], "yt_dlp_info") EXCEPT !.fallback = outcome]
         IN  IF outcome = "ok"
             THEN Goto(t, [r EXCEPT !.metadata = "yt_dlp",
                                    !.platform = Platform(r.url)], "transcript")
             ELSE Raise(t, r, "metadata_unavailable")
    /\ UNCHANGED <<service, original_content, content_chunks, started>>

\* what _extract_transcript returns: in the current extractor None, always
\* ("DISABLED: YouTube subtitle extraction to avoid 429 bans"); in v2 the text of
\* the chosen subtitle, or None
_extract_transcript(svc, u) == IF svc = "v2" THEN {None, TextOf(u)} ELSE {None}

\* a variant that goes on to the audio download whatever the captions gave
TryTranscriptThenAudio(t) ==
    /\ pc[t] = "transcript"
    /\ IF run[t].platform = "youtube"
       THEN \E caption \in _extract_transcript(service, run[t].url) :
              Goto(t, [Step(run[t], "extract_transcript") EXCEPT
                          !.caption = caption,
                          !.transcript = caption,
                          !.strategy = IF caption # None THEN "transcript" ELSE @,
                          !.extraction_method =
                              IF caption # None THEN "yt-dlp_transcript" ELSE @],
                   "download")
       ELSE Goto(t, run[t], "download")
    /\ UNCHANGED <<service, original_content, content_chunks, started>>

\* Step 3: if is_youtube: transcript = await self._extract_transcript(url, language)
TryTranscript(t) ==
    /\ pc[t] = "transcript"
    /\ IF run[t].platform = "youtube"
       THEN \E caption \in _extract_transcript(service, run[t].url) :
              LET r == [Step(run[t], "extract_transcript") EXCEPT !.caption = caption]
              IN  IF caption # None
                  THEN Goto(t, [r EXCEPT !.transcript = caption,
                                         !.strategy = "transcript",
                                         !.extraction_method = "yt-dlp_transcript"],
                            "save_content")
                  ELSE Goto(t, r, "download")
       ELSE Goto(t, run[t], "download")
    /\ UNCHANGED <<service, original_content, content_chunks, started>>

\* a variant in which a failed download leaves extract without an audio file
\* and lets it go on
DownloadAudioSwallowed(t) ==
    /\ pc[t] = "download"
    /\ \E outcome \in {"ok", "raised"} :
         Goto(t, [Step(run[t], "download_audio") EXCEPT
                     !.download = outcome,
                     !.audio_file = IF outcome = "ok" THEN "mp3" ELSE None],
              IF service = "v1" THEN "transcribe" ELSE "save_content")
    /\ UNCHANGED <<service, original_content, content_chunks, started>>

\* Step 4: if not transcript: audio_file = await self._download_audio(url);
\* _download_audio returns the filename or re-raises yt-dlp's exception
DownloadAudio(t) ==
    /\ pc[t] = "download"
    /\ \E outcome \in {"ok", "raised"} :
         LET r == [Step(run[t], "download_audio") EXCEPT !.download = outcome]
         IN  IF outcome = "ok"
             THEN Goto(t, [r EXCEPT !.audio_file = "mp3"],
                       IF service = "v1" THEN "transcribe" ELSE "save_content")
             ELSE Raise(t, r, "download_failed")
    /\ UNCHANGED <<service, original_content, content_chunks, started>>

\* what _transcribe_audio returns: the text; None for an empty text; None after
\* an exception of faster-whisper
WhisperOutcomes == {"text", "empty", "raised"}

\* a variant that reports a whisper transcription whatever whisper gave
TranscribeAudioAlwaysWhisper(t) ==
    /\ pc[t] = "transcribe"
    /\ \E outcome \in WhisperOutcomes :
         Goto(t, [Step(run[t], "transcribe_audio") EXCEPT
                     !.whisper = outcome,
                     !.transcript = IF outcome = "text" THEN TextOf(run[t].url) ELSE None,
                     !.strategy = "whisper",
                     !.extraction_method = "whisper_transcription"],
              "save_content")
    /\ UNCHANGED <<service, original_content, content_chunks, started>>

\* Step 4.5: transcript = await self._transcribe_audio(audio_path);
\* if transcript: strategy = "whisper"
TranscribeAudio(t) ==
    /\ pc[t] = "transcribe"
    /\ \E outcome \in WhisperOutcomes :
         LET r == [Step(run[t], "transcribe_audio") EXCEPT !.whisper = outcome]
         IN  IF outcome = "text"
             THEN Goto(t, [r EXCEPT !.transcript = TextOf(r.url),
                                    !.strategy = "whisper",
                                    !.extraction_method = "whisper_transcription"],
                       "save_content")
             ELSE Goto(t, r, "save_content")
    /\ UNCHANGED <<service, original_content, content_chunks, started>>

\* Step 5: content_id = await db.save_content(...): INSERT ... RETURNING id
\* (the code under src/ declares no uniqueness; the insert is taken to succeed)
SaveContent(t) ==
    /\ pc[t] = "save_content"
    /\ LET id == Len(original_content) + 1
           row == [id |-> id,
                   original_url |-> run[t].url,
                   content_hash |-> generate_hash(run[t].transcript),
                   raw_content |-> run[t].transcript,
                   audio_file_path |-> run[t].audio_file,
                   extraction_method |-> run[t].extraction_method]
           r == [Step(run[t], "save_content") EXCEPT
                    !.content_id = id, !.rows_written = @ + 1]
       IN  /\ original_content' = Append(original_content, row)
           /\ IF r.transcript # None
              THEN Goto(t, r, "save_chunks")
              ELSE Finish(t, [r EXCEPT !.status = "success"])
    /\ UNCHANGED <<service, content_chunks, started>>

\* Step 6: chunks = self._create_chunks(transcript);
\* total_chunks = await db.save_chunks(content_id, chunks): the chunks are
\* inserted in one transaction of their own; an exception of the database
\* rolls it back and leaves extract ("chunks_save_failed", raise)
SaveChunks(t) ==
    /\ pc[t] = "save_chunks"
    /\ \E outcome \in {"ok", "raised"} :
         LET chunks == NewChunks(run[t].content_id)
             r == Step(run[t], "save_chunks")
         IN  IF outcome = "ok"
             THEN /\ content_chunks' = content_chunks \cup chunks
                  /\ Finish(t, [r EXCEPT !.total_chunks = Cardinality(chunks),
                                         !.chunks_written = @ + Cardinality(chunks),
                                         !.has_transcript = TRUE,
                                         !.status = "success"])
             ELSE /\ UNCHANGED content_chunks
                  /\ Raise(t, r, "chunks_save_failed")
    /\ UNCHANGED <<service, original_content, started>>

----------------------------------------------------------------------------
(* YouTubeExtractor.select_best_transcript (src/extractors/youtube.py)     *)

TrackLangs == {"en", "fr", "de"}

\* TranscriptInfo: language_code and is_generated
AllTracks == [language_code : TrackLangs, is_generated : BOOLEAN]

\* "None if none suitable"
NoTrack == [language_code |-> None, is_generated |-> FALSE]

\* [t for t in transcripts if not t.is_generated]
ManualOnly(ts) == SelectSeq(ts, LAMBDA x : ~x.is_generated)

\* for transcript in transcripts: the first in language lang with is_generated = gen
FirstIn(ts, lang, gen) ==
    LET hits == SelectSeq(ts, LAMBDA x : x.language_code = lang /\ x.is_generated = gen)
    IN  IF hits = <<>> THEN NoTrack ELSE hits[1]

\* for lang in preferred_languages (from the i-th on): for transcript in transcripts
RECURSIVE FirstPreferred(_, _, _, _)
FirstPreferred(ts, preferred, gen, i) ==
    IF i > Len(preferred) THEN NoTrack
    ELSE IF FirstIn(ts, preferred[i], gen) # NoTrack THEN FirstIn(ts, preferred[i], gen)
    ELSE FirstPreferred(ts, preferred, gen, i + 1)

\* a variant that looks for the first preferred language in any track, manual
\* or auto-generated, before it prefers the manual ones
select_best_transcript_hint_first(transcripts, preferred, allow_auto_generated) ==
    LET ts == IF allow_auto_generated THEN transcripts ELSE ManualOnly(transcripts)
        hint == SelectSeq(ts, LAMBDA x : x.language_code = preferred[1])
    IN  IF ts = <<>> THEN NoTrack
        ELSE IF hint # <<>> THEN hint[1]
        ELSE IF ManualOnly(ts) # <<>> THEN ManualOnly(ts)[1]
        ELSE ts[1]

select_best_transcript(transcripts, preferred, allow_auto_generated) ==
    IF transcripts = <<>> THEN NoTrack
    ELSE
    LET ts == IF allow_auto_generated THEN transcripts ELSE ManualOnly(transcripts)
    IN  IF ts = <<>> THEN NoTrack
        \* "Try to find manual transcripts first in preferred languages"
        ELSE IF FirstPreferred(ts, preferred, FALSE, 1) # NoTrack
        THEN FirstPreferred(ts, preferred, FALSE, 1)
        \* "Then try auto-generated in preferred languages"
        ELSE IF allow_auto_generated /\ FirstPreferred(ts, preferred, TRUE, 1) # NoTrack
        THEN FirstPreferred(ts, preferred, TRUE, 1)
        \* "Fallback to first manual transcript"
        ELSE IF ManualOnly(ts) # <<>> THEN ManualOnly(ts)[1]
        \* "Final fallback to first auto-generated"
        ELSE IF allow_auto_generated THEN ts[1]
        ELSE NoTrack

----------------------------------------------------------------------------
(* YouTubeExtractor.extract and get_video_info (src/extractors/youtube.py) *)

\* ExtractionRequest.preferred_languages, by default
request_preferred_languages == <<"fr", "en", "ru">>

\* what get_available_transcripts gives ([] as well after an exception)
ListedTracks == {<<>>} \cup {<<x>> : x \in AllTracks}

\* video_info.duration of a video that is there
Durations == {300, 10000}

\* "Validate URL", "Extract video ID"
Validate(t) ==
    /\ pc[t] = "validate"
    /\ LET r == Step(run[t], "validate_youtube_url")
       IN  IF ValidYouTubeUrl(r.url)
           THEN Goto(t, r, "pytube")
           ELSE Finish(t, [r EXCEPT !.status = "INVALID_URL"])
    /\ UNCHANGED <<service, original_content, content_chunks, started>>

\* get_video_info: "Try pytube first"
InfoFromPytube(t) ==
    /\ pc[t] = "pytube"
    /\ \E outcome \in {"ok", "raised"} :
         LET r == [Step(run[t], "pytube") EXCEPT !.primary = outcome]
         IN  IF outcome = "ok"
             THEN \E d \in Durations :
                    Goto(t, [r EXCEPT !.metadata = "pytube", !.duration = d], "duration")
             ELSE Goto(t, r, "html")
    /\ UNCHANGED <<service, original_content, content_chunks, started>>

\* get_video_info: "Fallback to HTML parsing", then "Final fallback to basic info"
InfoFromHtml(t) ==
    /\ pc[t] = "html"
    /\ \E outcome \in {"ok", "none"} :
         LET r == [Step(run[t], "html") EXCEPT !.fallback = outcome]
         IN  IF outcome = "ok"
             THEN \E d \in Durations :
                    Goto(t, [r EXCEPT !.metadata = "html", !.duration = d], "duration")
             ELSE Goto(t, [r EXCEPT !.metadata = "placeholder", !.duration = 0], "duration")
    /\ UNCHANGED <<service, original_content, content_chunks, started>>

\* "Check duration limit"
CheckDuration(t) ==
    /\ pc[t] = "duration"
    /\ IF run[t].duration > max_video_duration
       THEN Finish(t, [run[t] EXCEPT !.status = "DURATION_EXCEEDED"])
       ELSE Goto(t, run[t], "list")
    /\ UNCHANGED <<service, original_content, content_chunks, started>>

\* "Get available transcripts", "Select best transcript"
ListAndSelect(t) ==
    /\ pc[t] = "list"
    /\ \E ts \in ListedTracks, allow \in BOOLEAN :
         LET r == Step(run[t], "list_transcripts")
         IN  IF ts = <<>>
             THEN Finish(t, [r EXCEPT !.status = "NO_TRANSCRIPT"])
             ELSE IF select_best_transcript(ts, request_preferred_languages, allow) = NoTrack
             THEN Finish(t, [r EXCEPT !.status = "LANGUAGE_NOT_AVAILABLE"])
             ELSE Goto(t, r, "fetch")
    /\ UNCHANGED <<service, original_content, content_chunks, started>>

\* "Extract transcript content": the text, a text under 10 characters, or
\* TranscriptUnavailableError
FetchTranscript(t) ==
    /\ pc[t] = "fetch"
    /\ \E outcome \in {"text", "short", "raised"} :
         LET r == [Step(run[t], "fetch_transcript") EXCEPT !.caption = outcome]
         IN  IF outcome = "text"
             THEN Finish(t, [r EXCEPT !.status = "SUCCESS", !.transcript = TextOf(r.url),
                                      !.has_transcript = TRUE])
             ELSE Finish(t, [r EXCEPT !.status = "NO_TRANSCRIPT"])
    /\ UNCHANGED <<service, original_content, content_chunks, started>>

----------------------------------------------------------------------------
(* POST /extract: extract_content (services/content_extractor/main.py)     *)

\* what YouTubeExtractor.extract of the service gives for a valid URL
ExtractionStatus == {"SUCCESS", "VIDEO_UNAVAILABLE", "NO_TRANSCRIPT", "ERROR"}

\* extraction_result = await extractor.extract(...); a status other than SUCCESS
\* raises HTTPException. There is no lookup of the URL before it.
YouTubeExtract(t) ==
    /\ pc[t] = "youtube_extract"
    /\ LET r == Step(run[t], "youtube_extract")
       IN  IF ~ValidYouTubeUrl(r.url)
           THEN Raise(t, r, "INVALID_URL")
           ELSE \E status \in ExtractionStatus :
                  IF status = "SUCCESS"
                  THEN Goto(t, [r EXCEPT !.transcript = TextOf(r.url),
                                         !.metadata = "yt_dlp",
                                         !.platform = "youtube",
                                         !.strategy = "fixed_size",
                                         !.extraction_method = "yt-dlp"], "store_lookup")
                  ELSE Raise(t, r, status)
    /\ UNCHANGED <<service, original_content, content_chunks, started>>

\* store_content: SELECT id FROM original_content WHERE content_hash = $1;
\* if existing: return existing['id']
StoreContentLookup(t) ==
    /\ pc[t] = "store_lookup"
    /\ LET r == Step(run[t], "store_content")
           existing == {i \in DOMAIN original_content :
                          original_content[i].content_hash = generate_hash(r.transcript)}
       IN  IF existing # {}
           THEN \E i \in existing :
                  Goto(t, [r EXCEPT !.content_id = original_content[i].id], "store_chunks")
           ELSE Goto(t, r, "store_insert")
    /\ UNCHANGED <<service, original_content, content_chunks, started>>

\* store_content: INSERT INTO original_content ... RETURNING id
StoreContentInsert(t) ==
    /\ pc[t] = "store_insert"
    /\ LET id == Len(original_content) + 1
           row == [id |-> id,
                   original_url |-> run[t].url,
                   content_hash |-> generate_hash(run[t].transcript),
                   raw_content |-> run[t].transcript,
                   audio_file_path |-> None,
                   extraction_method |-> run[t].extraction_method]
       IN  /\ original_content' = Append(original_content, row)
           /\ Goto(t, [run[t] EXCEPT !.content_id = id, !.rows_written = @ + 1],
                   "store_chunks")
    /\ UNCHANGED <<service, content_chunks, started>>

\* if chunks_data: await repo.store_chunks(...); return ExtractionResponse(status="success")
StoreChunks(t) ==
    /\ pc[t] = "store_chunks"
    /\ LET chunks == NewChunks(run[t].content_id)
           r == [Step(run[t], "store_chunks") EXCEPT
                    !.total_chunks = Cardinality(chunks),
                    !.chunks_written = @ + Cardinality(chunks),
                    !.has_transcript = TRUE,
                    !.status = "success"]
       IN  /\ content_chunks' = content_chunks \cup chunks
           /\ Finish(t, r)
    /\ UNCHANGED <<service, original_content, started>>

----------------------------------------------------------------------------
(* ChapterExtractor (services/content_extractor/extractors/chapters.py)    *)

\* a line of the description that matches one of time_patterns: the time
\* string, as its numbers between the colons ("5:30" is <<5, 30>>, "1:02:03"
\* is <<1, 2, 3>>), and the title after it
LINE_INTRO == [time |-> <<0, 0>>, title |-> "Intro"]
LINE_NOISE == [time |-> <<0, 5>>, title |-> "Noise"]
LINE_SETUP == [time |-> <<5, 30>>, title |-> "Setup"]
LINE_MIDDLE == [time |-> <<0, 25, 0>>, title |-> "Middle"]
LINE_CONCLUSION == [time |-> <<45, 0>>, title |-> "Conclusion"]
LINE_SHORT == [time |-> <<1, 0>>, title |-> "ab"]

DescriptionLines ==
    {LINE_INTRO, LINE_NOISE, LINE_SETUP, LINE_MIDDLE, LINE_CONCLUSION, LINE_SHORT}

\* the descriptions: at most n such lines, in any order
Descriptions(n) == UNION {[1..k -> DescriptionLines] : k \in 0..n}

\* info.get('duration') of the video, in seconds
VideoDurations == {400, 3000}

\* _time_to_seconds: mm:ss or hh:mm:ss
_time_to_seconds(time_str) ==
    IF Len(time_str) = 2 THEN time_str[1] * 60 + time_str[2]
    ELSE time_str[1] * 3600 + time_str[2] * 60 + time_str[3]

\* _parse_chapter_line, for a line that matches: a VideoChapter when the title
\* has more than 2 characters (end_seconds: <<>> is None), else nothing
_parse_chapter_line(line) ==
    IF Len(line.title) > 2
    THEN <<[time |-> line.time, title |-> line.title,
            start_seconds |-> _time_to_seconds(line.time), end_seconds |-> <<>>]>>
    ELSE <<>>

\* extract_chapters: for line in lines: ... chapters.append(chapter)
RECURSIVE ParseLines(_)
ParseLines(lines) ==
    IF lines = <<>> THEN <<>>
    ELSE _parse_chapter_line(Head(lines)) \o ParseLines(Tail(lines))

\* _set_end_times: chapters[i].end_seconds = chapters[i + 1].start_seconds for
\* all but the last
_set_end_times(chapters) ==
    [i \in DOMAIN chapters |->
        IF i < Len(chapters)
        THEN [chapters[i] EXCEPT !.end_seconds = <<chapters[i + 1].start_seconds>>]
        ELSE chapters[i]]

\* the loop of _filter_valid_chapters over the chapters from the i-th on
RECURSIVE FilterFrom(_, _, _)
FilterFrom(chapters, i, filtered) ==
    IF i > Len(chapters) THEN filtered
    ELSE IF chapters[i].start_seconds - filtered[Len(filtered)].start_seconds >= 10
    THEN FilterFrom(chapters, i + 1, Append(filtered, chapters[i]))
    ELSE FilterFrom(chapters, i + 1, filtered)

\* a variant that keeps every chapter that starts later than the last one kept
_filter_valid_chapters_any_gap(chapters) ==
    IF chapters = <<>> THEN <<>>
    ELSE LET RECURSIVE Keep(_, _)
             Keep(i, filtered) ==
                 IF i > Len(chapters) THEN filtered
                 ELSE IF chapters[i].start_seconds > filtered[Len(filtered)].start_seconds
                 THEN Keep(i + 1, Append(filtered, chapters[i]))
                 ELSE Keep(i + 1, filtered)
             kept == Keep(2, <<chapters[1]>>)
         IN  IF Len(kept) >= 2 THEN kept ELSE <<>>

\* _filter_valid_chapters: the first chapter is kept, a later one when it starts
\* 10 seconds or more after the last one kept; fewer than 2 left: none
_filter_valid_chapters(chapters) ==
    IF chapters = <<>> THEN <<>>
    ELSE LET filtered == FilterFrom(chapters, 2, <<chapters[1]>>)
         IN  IF Len(filtered) >= 2 THEN filtered ELSE <<>>

\* extract_chapters(description)
extract_chapters(description) ==
    _filter_valid_chapters(_set_end_times(ParseLines(description)))

\* get_chapter_segments: one dict per chapter that lasts 30 seconds or more,
\* its end the chapter's end_seconds or, for None, the video's duration
get_chapter_segments(chapters, video_duration) ==
    LET end_time(ch) == IF ch.end_seconds = <<>> THEN video_duration ELSE ch.end_seconds[1]
        segment(i) == [index |-> i, title |-> chapters[i].title,
                       start_time |-> chapters[i].start_seconds,
                       end_time |-> <<end_time(chapters[i])>>,
                       duration |-> end_time(chapters[i]) - chapters[i].start_seconds]
        RECURSIVE Collect(_)
        Collect(i) ==
            IF i > Len(chapters) THEN <<>>
            ELSE IF segment(i).duration >= 30 THEN <<segment(i)>> \o Collect(i + 1)
            ELSE Collect(i + 1)
    IN  Collect(1)

\* ChapterExtractor.should_use_chapters: coverage = last_chapter_start /
\* video_duration; return coverage > 0.5
extractor_should_use_chapters(chapters, video_duration) ==
    IF Len(chapters) < 2 THEN FALSE
    ELSE IF video_duration < 600 THEN FALSE
    ELSE 2 * chapters[Len(chapters)].start_seconds > video_duration

\* for ch in chapters: the dict of time, title, start_seconds, end_seconds
chapters_dicts(chapters) ==
    [i \in DOMAIN chapters |->
        [time |-> chapters[i].time, title |-> chapters[i].title,
         start_seconds |-> chapters[i].start_seconds,
         end_seconds |-> chapters[i].end_seconds]]

\* extract_video_chapters(description, video_duration), given the chapters that
\* extract_chapters returned
extract_video_chapters(chapters, video_duration) ==
    [has_chapters |-> Len(chapters) > 0,
     chapter_count |-> Len(chapters),
     chapters |-> chapters_dicts(chapters),
     segments |-> IF chapters # <<>> /\ video_duration > 0
                  THEN get_chapter_segments(chapters, video_duration) ELSE <<>>,
     should_use_chapters |-> IF chapters # <<>> /\ video_duration > 0
                             THEN extractor_should_use_chapters(chapters, video_duration)
                             ELSE FALSE]

\* video_info.chapters of a video without chapters: None
NoChapters ==
    [has_chapters |-> FALSE, chapter_count |-> 0, chapters |-> <<>>,
     segments |-> <<>>, should_use_chapters |-> FALSE]

----------------------------------------------------------------------------
(* ChapterBasedChunker and FixedSizeChunker (services/content_extractor/   *)
(* chunking)                                                               *)

\* a transcript segment: start and duration in seconds, its text (one sentence,
\* of words that no other segment has) and the units count_units gives for it
SEG_A == [start |-> 10, duration |-> 5, text |-> <<"a">>, units |-> 300]
SEG_B == [start |-> 400, duration |-> 5, text |-> <<"b">>, units |-> 40]
SEG_C == [start |-> 2800, duration |-> 5, text |-> <<"c">>, units |-> 300]

\* the transcripts: segments in the order of their starts, at least one
Transcripts ==
    {<<SEG_A>>, <<SEG_B>>, <<SEG_C>>, <<SEG_A, SEG_B>>, <<SEG_A, SEG_C>>,
     <<SEG_B, SEG_C>>, <<SEG_A, SEG_B, SEG_C>>}

\* dict.get(key, default)
Get(d, key, default) == IF key \in DOMAIN d THEN d[key] ELSE default

\* [seg.get('text', '') for seg in segments], the texts that ' '.join joins
Texts(segments) == [i \in DOMAIN segments |-> segments[i].text]

\* ChapterBasedChunker.should_use_chapters: last_chapter_end =
\* chapters[-1].get('end_time', video_duration); False when coverage < 0.5
\* (an end_time of None does not reach it from extract_content: the dicts of
\* video_info.chapters['chapters'] have no key 'end_time')
chunker_should_use_chapters(chapters, video_duration) ==
    IF Len(chapters) < 2 THEN FALSE
    ELSE IF video_duration < 600 THEN FALSE
    ELSE LET last_chapter_end ==
                 Get(chapters[Len(chapters)], "end_time", <<video_duration>>)[1]
         IN  ~(2 * last_chapter_end < video_duration)

\* chunk_by_chapters, for the chapters from the i-th on (idx = i - 1)
RECURSIVE ChunkChaptersFrom(_, _, _, _)
ChunkChaptersFrom(transcript_segments, chapters, video_duration, i) ==
    IF i > Len(chapters) THEN <<>>
    ELSE
    LET chapter == chapters[i]
        start_time == Get(chapter, "start_time", 0)
        given_end == Get(chapter, "end_time", <<>>)
        end_time == IF given_end = <<>> THEN video_duration ELSE given_end[1]
        chapter_segments ==
            SelectSeq(transcript_segments,
                      LAMBDA seg : start_time <= seg.start /\ seg.start < end_time)
        rest == ChunkChaptersFrom(transcript_segments, chapters, video_duration, i + 1)
    IN  IF chapter_segments = <<>> THEN rest
        ELSE <<[chunk_index |-> i - 1,
                chunk_text |-> Texts(chapter_segments),
                start_timestamp |-> start_time,
                end_timestamp |-> end_time,
                chapter_title |-> Get(chapter, "title", "Chapter")]>> \o rest

chunk_by_chapters(transcript_segments, chapters, video_duration) ==
    ChunkChaptersFrom(transcript_segments, chapters, video_duration, 1)

\* FixedSizeChunker(chunk_size, overlap): self.chunk_size and self.overlap
FixedSizeChunker(size, over) == [chunk_size |-> size, overlap |-> over]

\* a text is the sequence of its words; a sentence is a text with the units
\* that count_units gives for it
EmptySentence == [text |-> <<>>, units |-> 0]

\* re.split(r'(?<=[.!?])\s+', text): the sentences of the content, and for the
\* empty content the list of one empty string
re_split(content) == IF content = <<>> THEN <<EmptySentence>> ELSE content

\* sum of count_units over sentences
RECURSIVE Units(_)
Units(sentences) ==
    IF sentences = <<>> THEN 0 ELSE Head(sentences).units + Units(Tail(sentences))

\* split_text, "Keep overlap": for s in reversed(current_chunk), the sentences
\* kept while overlap_size + s_size <= self.overlap
RECURSIVE KeepOverlap(_, _, _, _)
KeepOverlap(self, current_chunk, k, overlap_sentences) ==
    IF k = 0 THEN overlap_sentences
    ELSE IF Units(overlap_sentences) + current_chunk[k].units <= self.overlap
    THEN KeepOverlap(self, current_chunk, k - 1,
                     <<current_chunk[k]>> \o overlap_sentences)
    ELSE overlap_sentences

\* a variant that carries the whole closed chunk over
overlap_sentences_all(self, current_chunk) == current_chunk

\* overlap_sentences, as the loop over reversed(current_chunk) leaves it
overlap_sentences_of(self, current_chunk) ==
    KeepOverlap(self, current_chunk, Len(current_chunk), <<>>)

\* split_text: the loop over the sentences from the i-th on, then "Add last chunk"
RECURSIVE SplitFrom(_, _, _, _, _)
SplitFrom(self, sentences, i, chunks, current_chunk) ==
    IF i > Len(sentences)
    THEN IF current_chunk # <<>> THEN Append(chunks, current_chunk) ELSE chunks
    ELSE IF Units(current_chunk) + sentences[i].units > self.chunk_size
            /\ current_chunk # <<>>
    THEN SplitFrom(self, sentences, i + 1, Append(chunks, current_chunk),
                   Append(overlap_sentences_of(self, current_chunk), sentences[i]))
    ELSE SplitFrom(self, sentences, i + 1, chunks, Append(current_chunk, sentences[i]))

\* a variant that leaves out the sentences larger than chunk_size
split_text_skipping_oversize(self, text) ==
    SplitFrom(self, SelectSeq(re_split(text), LAMBDA s : s.units <= self.chunk_size),
              1, <<>>, <<>>)

\* a variant without the step "Add last chunk"
split_text_without_last(self, text) ==
    LET chunks == SplitFrom(self, re_split(text), 1, <<>>, <<>>)
    IN  SubSeq(chunks, 1, Len(chunks) - 1)

\* split_text(text): a chunk is the list of the sentences that ' '.join joins
split_text(self, text) == SplitFrom(self, re_split(text), 1, <<>>, <<>>)

Min(a, b) == IF a < b THEN a ELSE b

Range(s) == {s[i] : i \in DOMAIN s}

\* set(chunk_text.lower().split())
chunk_words(chunk) == UNION {Range(chunk[j].text) : j \in DOMAIN chunk}

\* Python floats are IEEE 754 doubles: a positive one is kept as its 53
\* significand bits m (first bit 1, most significant first) and the weight
\* 2^e of its last bit; Zero is 0.0
Zero == [m |-> <<>>, e |-> 0]

Precision == 53

\* the arithmetic below works on blocks of BlockBits bits
BlockBits == 9

Pow2 == [k \in 0..BlockBits |-> CASE k = 0 -> 1 [] k = 1 -> 2 [] k = 2 -> 4 [] k = 3 -> 8
                                  [] k = 4 -> 16 [] k = 5 -> 32 [] k = 6 -> 64
                                  [] k = 7 -> 128 [] k = 8 -> 256 [] OTHER -> 512]

\* the bits of a natural number, most significant first (none for 0)
RECURSIVE ToBits(_)
ToBits(x) == IF x = 0 THEN <<>> ELSE Append(ToBits(x \div 2), x % 2)

\* the bits of a natural number below 2^BlockBits, as one block
BlockOf(x) == [j \in 1..BlockBits |-> (x \div Pow2[BlockBits - j]) % 2]

RECURSIVE FromBits(_)
FromBits(bits) ==
    IF bits = <<>> THEN 0
    ELSE 2 * FromBits(SubSeq(bits, 1, Len(bits) - 1)) + bits[Len(bits)]

\* bits without its leading zeros
Normalized(bits) ==
    LET ones == {j \in DOMAIN bits : bits[j] = 1}
    IN  IF ones = {} THEN <<>>
        ELSE SubSeq(bits, CHOOSE j \in ones : \A k \in ones : j <= k, Len(bits))

\* bits + 1, as a bit sequence (one bit longer when all bits are 1)
Increment(bits) ==
    LET zeros == {j \in DOMAIN bits : bits[j] = 0}
        last == CHOOSE j \in zeros : \A k \in zeros : k <= j
    IN  IF zeros = {} THEN <<1>> \o [j \in DOMAIN bits |-> 0]
        ELSE [j \in DOMAIN bits |-> IF j < last THEN bits[j]
                                    ELSE IF j = last THEN 1 ELSE 0]

\* round to nearest, ties to even: the exact value is bits * 2^e, plus less
\* than one unit of the last bit when sticky
RoundToDouble(bits, e, sticky) ==
    IF Len(bits) <= Precision THEN [m |-> bits, e |-> e]
    ELSE LET kept == SubSeq(bits, 1, Precision)
             rest == SubSeq(bits, Precision + 1, Len(bits))
             weight == e + Len(rest)
             half == rest[1] = 1
             more == sticky \/ \E j \in 2..Len(rest) : rest[j] = 1
             up == half /\ (more \/ kept[Precision] = 1)
             rounded == IF up THEN Increment(kept) ELSE kept
         IN  IF Len(rounded) > Precision
             THEN [m |-> SubSeq(rounded, 1, Precision), e |-> weight + 1]
             ELSE [m |-> rounded, e |-> weight]

\* the binary expansion of a quotient with remainder r and divisor n, one block
\* per step; e is the weight of the last bit of bits
RECURSIVE DivideFrom(_, _, _, _)
DivideFrom(r, n, bits, e) ==
    IF Len(Normalized(bits)) > Precision THEN RoundToDouble(Normalized(bits), e, r # 0)
    ELSE DivideFrom((r * Pow2[BlockBits]) % n, n,
                    bits \o BlockOf((r * Pow2[BlockBits]) \div n), e - BlockBits)

\* a / b for ints a >= 0 and b > 0: the double nearest to the quotient
float_div(a, b) ==
    IF a = 0 THEN Zero ELSE DivideFrom(a % b, b, ToBits(a \div b), 0)

\* the bits of bits * i + carry, one block per step from the last bit on
RECURSIVE TimesFrom(_, _, _)
TimesFrom(bits, i, carry) ==
    IF bits = <<>> THEN ToBits(carry)
    ELSE LET cut == IF Len(bits) > BlockBits THEN Len(bits) - BlockBits ELSE 0
             t == FromBits(SubSeq(bits, cut + 1, Len(bits))) * i + carry
         IN  TimesFrom(SubSeq(bits, 1, cut), i, t \div Pow2[Len(bits) - cut])
                 \o SubSeq(BlockOf(t % Pow2[Len(bits) - cut]),
                           BlockBits - (Len(bits) - cut) + 1, BlockBits)

\* i * x for an int i >= 0 and a float x: the double nearest to the product
float_mul(i, x) ==
    IF i = 0 \/ x = Zero THEN Zero
    ELSE RoundToDouble(Normalized(TimesFrom(x.m, i, 0)), x.e, FALSE)

\* int(x) for a float x >= 0: the integer part
int(x) ==
    IF x = Zero THEN 0
    ELSE IF Len(x.m) + x.e <= 0 THEN 0
    ELSE FromBits(SubSeq(x.m, 1, Len(x.m) + x.e))

\* int(i * chunk_duration), chunk_duration = video_duration / len(chunks)
EvenShare(i, video_duration, n) == int(float_mul(i, float_div(video_duration, n)))

\* estimate_timestamps with segments: for the chunks from the k-th on, with the
\* cursor segment_idx (counted from 1); each entry carries the cursor after it
RECURSIVE MatchFrom(_, _, _, _)
MatchFrom(chunks, transcript_segments, k, segment_idx) ==
    IF k > Len(chunks) THEN <<>>
    ELSE
    LET best_start == transcript_segments[segment_idx].start
        window == segment_idx..Min(segment_idx + lookahead - 1, Len(transcript_segments))
        matching == {i \in window :
                        chunk_words(chunks[k]) \cap Range(transcript_segments[i].text) # {}}
        last == CHOOSE i \in matching : \A j \in matching : j <= i
        best_end == IF matching = {} THEN best_start
                    ELSE transcript_segments[last].start + transcript_segments[last].duration
        next_idx == IF matching # {} /\ last > segment_idx THEN last ELSE segment_idx
    IN  <<[start |-> best_start, end |-> best_end, segment_idx |-> next_idx]>>
            \o MatchFrom(chunks, transcript_segments, k + 1, next_idx)

\* estimate_timestamps: without segments the duration is distributed evenly
estimate_timestamps(chunks, transcript_segments, video_duration) ==
    IF transcript_segments = <<>>
    THEN [k \in DOMAIN chunks |->
            <<EvenShare(k - 1, video_duration, Len(chunks)),
              EvenShare(k, video_duration, Len(chunks))>>]
    ELSE LET matched == MatchFrom(chunks, transcript_segments, 1, 1)
         IN  [k \in DOMAIN matched |-> <<matched[k].start, matched[k].end>>]

\* for idx, (text, (start, end)) in enumerate(zip(text_chunks, timestamps))
zip_chunks(text_chunks, timestamps) ==
    [k \in 1..Min(Len(text_chunks), Len(timestamps)) |->
        [chunk_index |-> k - 1,
         chunk_text |-> Texts(text_chunks[k]),
         start_timestamp |-> timestamps[k][1],
         end_timestamp |-> timestamps[k][2]]]

\* FixedSizeChunker.chunk(content, transcript_segments, video_duration)
fixed_size_chunk(self, content, transcript_segments, video_duration) ==
    LET text_chunks == split_text(self, content)
        timestamps == estimate_timestamps(text_chunks, transcript_segments, video_duration)
    IN  zip_chunks(text_chunks, timestamps)

----------------------------------------------------------------------------
(* The chunking pipeline of one video: the description parsed by           *)
(* ChapterExtractor, wired by YouTubeExtractor.extract, chunked by         *)
(* extract_content (services/content_extractor/main.py)                    *)

\* extract_video_chapters, first step: chapters = self.extract_chapters(description)
ExtractChapters ==
    /\ ch_pc = "extract_chapters"
    /\ ch_chapters' = extract_chapters(ch_description)
    /\ ch_pc' = "extract_video_chapters"
    /\ UNCHANGED <<ch_description, ch_duration, ch_transcript, ch_info, ch_args,
                   ch_strategy, ch_chunks>>

\* YouTubeExtractor.extract: if description and duration > 0, chapters_data is
\* the result of extract_video_chapters when it has chapters, else None
ExtractVideoChapters ==
    /\ ch_pc = "extract_video_chapters"
    /\ ch_info' = IF ch_description # <<>> /\ ch_duration > 0
                  THEN LET chapters_result ==
                               extract_video_chapters(ch_chapters, ch_duration)
                       IN  IF chapters_result.has_chapters THEN chapters_result
                           ELSE NoChapters
                  ELSE NoChapters
    /\ ch_pc' = "choose_strategy"
    /\ UNCHANGED <<ch_description, ch_duration, ch_transcript, ch_chapters, ch_args,
                   ch_strategy, ch_chunks>>

\* extract_content, "Choose chunking strategy": chapters =
\* video_info.chapters.get('chapters', []), given to the chunker as they are
ChooseStrategy ==
    /\ ch_pc = "choose_strategy"
    /\ IF ch_info.has_chapters
          /\ chunker_should_use_chapters(ch_info.chapters, ch_duration)
       THEN /\ ch_strategy' = "chapter_based"
            /\ ch_args' = ch_info.chapters
            /\ ch_pc' = "chunk_by_chapters"
       ELSE /\ ch_strategy' = "fixed_size"
            /\ ch_args' = <<>>
            /\ ch_pc' = "chunk_fixed_size"
    /\ UNCHANGED <<ch_description, ch_duration, ch_transcript, ch_chapters, ch_info,
                   ch_chunks>>

\* chapter_chunker.chunk_by_chapters(transcript_segments, chapters, duration)
ChunkByChapters ==
    /\ ch_pc = "chunk_by_chapters"
    /\ ch_chunks' = chunk_by_chapters(ch_transcript, ch_args, ch_duration)
    /\ ch_pc' = "done"
    /\ UNCHANGED <<ch_description, ch_duration, ch_transcript, ch_chapters, ch_info,
                   ch_args, ch_strategy>>

\* apply_fixed_size_chunking: chunker.chunk(text, transcript_segments, duration)
ChunkFixedSize ==
    /\ ch_pc = "chunk_fixed_size"
    /\ ch_chunks' = fixed_size_chunk(FixedSizeChunker(chunk_size, overlap), ch_transcript,
                                   ch_transcript, ch_duration)
    /\ ch_pc' = "done"
    /\ UNCHANGED <<ch_description, ch_duration, ch_transcript, ch_chapters, ch_info,
                   ch_args, ch_strategy>>

----------------------------------------------------------------------------
(* FixedSizeChunker.chunk on drawn inputs *)

SENT_S == [text |-> <<"x">>, units |-> 20]
SENT_T == [text |-> <<"y", "the">>, units |-> 30]
SENT_M == [text |-> <<"z">>, units |-> 300]
SENT_L == [text |-> <<"w", "the">>, units |-> 600]

SentencePool == {SENT_S, SENT_T, SENT_M, SENT_L}

\* the contents: up to n sentences of the pool, or up to m times the sentence
\* SENT_M (a long content); <<>> is the empty content
Contents(n, m) ==
    UNION {[1..k -> SentencePool] : k \in 0..n}
        \cup {[i \in 1..k |-> SENT_M] : k \in 1..m}

ChunkSizes == {100, 500}
Overlaps == {0, 50, 500}

CUE_X == [start |-> 0, duration |-> 5, text |-> <<"x">>]
CUE_Y == [start |-> 5, duration |-> 5, text |-> <<"y", "the">>]
CUE_Z == [start |-> 10, duration |-> 5, text |-> <<"z">>]
CUE_W == [start |-> 15, duration |-> 0, text |-> <<"w", "the">>]

AllCues == <<CUE_X, CUE_Y, CUE_Z, CUE_W>>

RECURSIVE PickFrom(_, _)
PickFrom(S, i) ==
    IF i > Len(AllCues) THEN <<>>
    ELSE (IF i \in S THEN <<AllCues[i]>> ELSE <<>>) \o PickFrom(S, i + 1)

\* the segment lists: the cues in the order of their starts, at least one
CueLists == {PickFrom(S, 1) : S \in (SUBSET DOMAIN AllCues) \ {{}}}

FixDurations == {0, 1980, 3000}

\* text_chunks = self.split_text(content)
SplitText ==
    /\ fx_pc = "split_text"
    /\ fx_text_chunks' = split_text(fx_self, fx_content)
    /\ fx_pc' = "estimate_timestamps"
    /\ UNCHANGED <<fx_self, fx_content, fx_segments, fx_duration, fx_timestamps,
                   fx_cursors, fx_chunks>>

\* timestamps = self.estimate_timestamps(text_chunks, transcript_segments,
\* video_duration); fx_cursors is segment_idx after each chunk
EstimateTimestamps ==
    /\ fx_pc = "estimate_timestamps"
    /\ fx_timestamps' = estimate_timestamps(fx_text_chunks, fx_segments, fx_duration)
    /\ fx_cursors' =
           IF fx_segments = <<>> THEN <<>>
           ELSE LET matched == MatchFrom(fx_text_chunks, fx_segments, 1, 1)
                IN  [k \in DOMAIN matched |-> matched[k].segment_idx]
    /\ fx_pc' = "zip"
    /\ UNCHANGED <<fx_self, fx_content, fx_segments, fx_duration, fx_text_chunks,
                   fx_chunks>>

\* the loop over enumerate(zip(text_chunks, timestamps)) that builds the chunks
ZipChunks ==
    /\ fx_pc = "zip"
    /\ fx_chunks' = zip_chunks(fx_text_chunks, fx_timestamps)
    /\ fx_pc' = "done"
    /\ UNCHANGED <<fx_self, fx_content, fx_segments, fx_duration, fx_text_chunks,
                   fx_timestamps, fx_cursors>>

----------------------------------------------------------------------------
(* Caption parsing: YouTubeExtractor._parse_vtt_subtitles                   *)
(* (services/content_extractor/extractors/youtube.py) and                  *)
(* YouTubeExtractor.extract_transcript (src/extractors/youtube.py)         *)

\* a caption text is the sequence of its tokens: words, tags such as <c> and
\* bracketed annotations such as [Music]
Tags == {"<c>", "</c>"}
Annotations == {"[Music]", "[Applause]"}

\* a timestamp string is the sequence of its parts between ':'; a part is <<n>>
\* when float() reads the number n from it and <<>> when float() raises
TS(h, m, s) == <<<<h>>, <<m>>, <<s>>>>
TS_JUNK == <<<<>>>>

\* a cue block: the number of '-->' in its first line that has one (0: no such
\* line), the string before the arrow, the whitespace-separated tokens after
\* it, and the text of the lines below that line
BLOCK_HEADER == [arrows |-> 0, start_str |-> <<>>, end_str |-> <<>>,
                 text_lines |-> <<"WEBVTT">>]
BLOCK_HELLO == [arrows |-> 1, start_str |-> TS(0, 0, 5), end_str |-> <<TS(0, 0, 8)>>,
                text_lines |-> <<"<c>", "hello", "</c>">>]
BLOCK_MUSIC == [arrows |-> 1, start_str |-> TS(0, 0, 10), end_str |-> <<TS(0, 0, 12)>>,
                text_lines |-> <<"[Music]">>]
BLOCK_WORLD == [arrows |-> 1, start_str |-> <<<<1>>, <<20>>>>,
                end_str |-> <<<<<<1>>, <<25>>>>, TS_JUNK>>,
                text_lines |-> <<"world", "[Applause]">>]
BLOCK_JUNK == [arrows |-> 1, start_str |-> TS_JUNK, end_str |-> <<TS_JUNK>>,
               text_lines |-> <<"lost">>]
BLOCK_NO_END == [arrows |-> 1, start_str |-> TS(0, 0, 30), end_str |-> <<>>,
                 text_lines |-> <<"tail">>]
BLOCK_TWO_ARROWS == [arrows |-> 2, start_str |-> TS(0, 0, 40), end_str |-> <<TS(0, 0, 45)>>,
                     text_lines |-> <<"twice">>]
BLOCK_ONLY_TAGS == [arrows |-> 1, start_str |-> TS(0, 0, 50), end_str |-> <<TS(0, 0, 55)>>,
                    text_lines |-> <<"<c>", "</c>">>]

Blocks == {BLOCK_HEADER, BLOCK_HELLO, BLOCK_MUSIC, BLOCK_WORLD, BLOCK_JUNK,
           BLOCK_NO_END, BLOCK_TWO_ARROWS, BLOCK_ONLY_TAGS}

\* the payloads: up to n blocks
Payloads(n) == UNION {[1..k -> Blocks] : k \in 0..n}

\* _parse_vtt_timestamp: 3 parts are hours, minutes and seconds, 2 parts
\* minutes and seconds, otherwise float(timestamp); any exception gives 0.0
_parse_vtt_timestamp(timestamp) ==
    IF \E k \in DOMAIN timestamp : timestamp[k] = <<>> THEN 0
    ELSE IF Len(timestamp) = 3
    THEN timestamp[1][1] * 3600 + timestamp[2][1] * 60 + timestamp[3][1]
    ELSE IF Len(timestamp) = 2 THEN timestamp[1][1] * 60 + timestamp[2][1]
    ELSE IF Len(timestamp) = 1 THEN timestamp[1][1]
    ELSE 0

\* re.sub(r'<[^>]+>', '', text)
remove_tags(text) == SelectSeq(text, LAMBDA token : token \notin Tags)

\* re.sub(r'\[.*?\]', '', text)
remove_annotations(text) == SelectSeq(text, LAMBDA token : token \notin Annotations)

\* _parse_vtt_subtitles, the body of the loop for one block: the segments it
\* appends (none after a continue, in the except branch too)
ParseBlock(block) ==
    IF block.arrows = 0 \/ block.text_lines = <<>> THEN <<>>
    ELSE IF block.arrows > 1 THEN <<>>
    ELSE IF block.end_str = <<>> THEN <<>>
    ELSE LET start == _parse_vtt_timestamp(block.start_str)
             end == _parse_vtt_timestamp(block.end_str[1])
             text == remove_tags(block.text_lines)
         IN  IF text # <<>>
             THEN <<[text |-> text, start |-> start, duration |-> end - start]>>
             ELSE <<>>

RECURSIVE ParseBlocks(_)
ParseBlocks(blocks) ==
    IF blocks = <<>> THEN <<>>
    ELSE ParseBlock(Head(blocks)) \o ParseBlocks(Tail(blocks))

\* ' '.join(parts)
RECURSIVE Join(_)
Join(parts) == IF parts = <<>> THEN <<>> ELSE Head(parts) \o Join(Tail(parts))

\* _parse_vtt_subtitles(vtt_content): (full_text, segments)
_parse_vtt_subtitles(vtt_content) ==
    LET segments == ParseBlocks(vtt_content)
    IN  [full_text |-> Join(Texts(segments)), segments |-> segments]

\* a transcript entry of the transcript API
ENTRY_HELLO == [text |-> <<"Hello", "world">>, start |-> 0, duration |-> 2]
ENTRY_TEST == [text |-> <<"a", "[Applause]", "test">>, start |-> 2, duration |-> 3]
ENTRY_MUSIC == [text |-> <<"[Music]">>, start |-> 5, duration |-> 1]
ENTRY_EMPTY == [text |-> <<>>, start |-> 6, duration |-> 1]

Entries == {ENTRY_HELLO, ENTRY_TEST, ENTRY_MUSIC, ENTRY_EMPTY}

TranscriptData(n) == UNION {[1..k -> Entries] : k \in 0..n}

\* extract_transcript, the body of the loop for one entry
CleanEntry(entry) ==
    IF entry.text = <<>> THEN <<>>
    ELSE LET clean_text == remove_annotations(entry.text)
         IN  IF clean_text # <<>>
             THEN <<[text |-> clean_text, start |-> entry.start,
                     duration |-> entry.duration]>>
             ELSE <<>>

RECURSIVE CleanEntries(_)
CleanEntries(transcript_data) ==
    IF transcript_data = <<>> THEN <<>>
    ELSE CleanEntry(Head(transcript_data)) \o CleanEntries(Tail(transcript_data))

\* extract_transcript: (full_content, segments) of the fetched transcript_data
extract_transcript(transcript_data) ==
    LET segments == CleanEntries(transcript_data)
    IN  [full_text |-> Join(Texts(segments)), segments |-> segments]

\* transcript_text, transcript_segments = self._parse_vtt_subtitles(vtt_content)
ParseVtt ==
    /\ cap_pc = "_parse_vtt_subtitles"
    /\ LET parsed == _parse_vtt_subtitles(cap_vtt_content)
       IN  /\ cap_full_text' = parsed.full_text
           /\ cap_segments' = parsed.segments
    /\ cap_pc' = "done"
    /\ UNCHANGED <<cap_shape, cap_vtt_content, cap_transcript_data>>

\* content, segments = await self.extract_transcript(video_id, transcript_info)
ExtractTranscript ==
    /\ cap_pc = "extract_transcript"
    /\ LET parsed == extract_transcript(cap_transcript_data)
       IN  /\ cap_full_text' = parsed.full_text
           /\ cap_segments' = parsed.segments
    /\ cap_pc' = "done"
    /\ UNCHANGED <<cap_shape, cap_vtt_content, cap_transcript_data>>

----------------------------------------------------------------------------
(* select_best_transcript on drawn inputs *)

\* the lists of at most n tracks
TrackSeqs(n) == UNION {[1..k -> AllTracks] : k \in 0..n}

\* preferred_languages: the language hint first, then the fixed priority list
PreferredLists == {<<"fr">>, <<"en">>, <<"fr", "en">>, <<"en", "fr">>}

Select ==
    /\ sel_pc = "call"
    /\ sel_result' = select_best_transcript(sel_transcripts, sel_preferred, sel_allow)
    /\ sel_pc' = "returned"
    /\ UNCHANGED <<sel_transcripts, sel_preferred, sel_allow>>

----------------------------------------------------------------------------
(* DeepSeekSummarizer._check_rate_limits (src/summarizers/deepseek.py)     *)

\* the clock when the summarizer is first looked at
Epoch == 3600

\* how far the clock moves between two calls
ClockSteps == {1, 59, 60}

\* n requests recorded at time req_time
Batch(req_time, n) == [i \in 1..n |-> req_time]

\* max_per_minute requests in each of the last m minutes before clock, the
\* oldest minute first
RECURSIVE FullMinutes(_, _)
FullMinutes(clock, m) ==
    IF m = 0 THEN <<>>
    ELSE Batch(clock - 60 * m, max_per_minute) \o FullMinutes(clock, m - 1)

\* rate_limiter['requests'] as earlier calls can have left it: nothing; a
\* minute one short of full, half a minute ago; a full minute that ends in a
\* second; an hour one short of full; the same with its oldest requests about
\* to leave the hour
Histories ==
    { <<>>,
      Batch(Epoch - 30, max_per_minute - 1),
      Batch(Epoch - 59, max_per_minute),
      Batch(Epoch - 1020, 39) \o FullMinutes(Epoch, 16),
      Batch(Epoch - 3599, 39) \o FullMinutes(Epoch, 16) }

\* self.rate_limiter, as __init__ makes it, with the requests recorded so far
RateLimiter(requests) ==
    [requests |-> requests, max_per_minute |-> max_per_minute,
     max_per_hour |-> max_per_hour]

\* [req_time for req_time in requests if now - req_time < span]
Within(requests, clock, span) ==
    SelectSeq(requests, LAMBDA req_time : clock - req_time < span)

\* a variant that records the request before it checks the limits
_check_rate_limits_recording(rate_limiter, clock) ==
    LET requests == Append(Within(rate_limiter.requests, clock, 3600), clock)
        recent_requests == Within(requests, clock, 60)
    IN  IF Len(recent_requests) > rate_limiter.max_per_minute
        THEN [requests |-> requests, raised |-> "too many requests per minute"]
        ELSE IF Len(requests) > rate_limiter.max_per_hour
        THEN [requests |-> requests, raised |-> "too many requests per hour"]
        ELSE [requests |-> requests, raised |-> None]

\* _check_rate_limits at time clock: the requests it leaves and what it raises
_check_rate_limits(rate_limiter, clock) ==
    \* "Clean old requests"
    LET requests == Within(rate_limiter.requests, clock, 3600)
        \* "Check minute limit"
        recent_requests == Within(requests, clock, 60)
    IN  IF Len(recent_requests) >= rate_limiter.max_per_minute
        THEN [requests |-> requests, raised |-> "too many requests per minute"]
        \* "Check hourly limit"
        ELSE IF Len(requests) >= rate_limiter.max_per_hour
        THEN [requests |-> requests, raised |-> "too many requests per hour"]
        \* "Record this request"
        ELSE [requests |-> Append(requests, clock), raised |-> None]

\* await self._check_rate_limits(): it has no await of its own, so no other
\* call runs in between
CheckRateLimits ==
    /\ rl_calls < MaxCalls
    /\ LET out == _check_rate_limits(rl_rate_limiter, rl_now)
       IN  /\ rl_rate_limiter' = [rl_rate_limiter EXCEPT !.requests = out.requests]
           /\ rl_raised' = out.raised
    /\ rl_before' = rl_rate_limiter.requests
    /\ rl_at' = <<rl_now>>
    /\ rl_calls' = rl_calls + 1
    /\ UNCHANGED <<rl_now, rl_ticks>>

\* time passes between two calls
TimePasses ==
    /\ rl_ticks < MaxTicks
    /\ \E d \in ClockSteps : rl_now' = rl_now + d
    /\ rl_ticks' = rl_ticks + 1
    /\ UNCHANGED <<rl_rate_limiter, rl_before, rl_at, rl_raised, rl_calls>>

----------------------------------------------------------------------------
(* The specifications *)

InitGate ==
    /\ now = 0
    /\ last_request_time = <<>>
    /\ ypc = [t \in Threads |-> "start"]
    /\ ywake = [t \in Threads |-> 0]
    /\ yidx = [t \in Threads |-> 1]
    /\ ytext = [t \in Threads |-> ""]
    /\ grants = <<>>
    /\ ylog = [t \in Threads |-> <<>>]

InitExtract ==
    /\ pc = [t \in Tasks |-> "idle"]
    /\ run = [t \in Tasks |-> IdleRun]
    /\ original_content = <<>>
    /\ content_chunks = {}
    /\ first_done = [u \in Urls |-> 0]
    /\ started = 0

InitSelect ==
    /\ sel_pc = "idle"
    /\ sel_transcripts = <<>>
    /\ sel_preferred = <<>>
    /\ sel_allow = FALSE
    /\ sel_result = NoTrack

InitCaptions ==
    /\ cap_pc = "idle"
    /\ cap_shape = "none"
    /\ cap_vtt_content = <<>>
    /\ cap_transcript_data = <<>>
    /\ cap_full_text = <<>>
    /\ cap_segments = <<>>

InitLimiter ==
    /\ rl_now = Epoch
    /\ rl_rate_limiter = RateLimiter(<<>>)
    /\ rl_before = <<>>
    /\ rl_at = <<>>
    /\ rl_raised = None
    /\ rl_calls = 0
    /\ rl_ticks = 0

InitFixed ==
    /\ fx_pc = "idle"
    /\ fx_self = FixedSizeChunker(chunk_size, overlap)
    /\ fx_content = <<>>
    /\ fx_segments = <<>>
    /\ fx_duration = 0
    /\ fx_text_chunks = <<>>
    /\ fx_timestamps = <<>>
    /\ fx_cursors = <<>>
    /\ fx_chunks = <<>>

InitChapters ==
    /\ ch_pc = "idle"
    /\ ch_description = <<>>
    /\ ch_duration = 0
    /\ ch_transcript = <<>>
    /\ ch_chapters = <<>>
    /\ ch_info = NoChapters
    /\ ch_args = <<>>
    /\ ch_strategy = "none"
    /\ ch_chunks = <<>>

\* the rate gate and the yt-dlp extractor's runs, on threads of one process
NextYt ==
    \/ Tick /\ UNCHANGED <<extractVars, selVars, chapVars, fixVars, capVars, rlVars>>
    \/ (\E t \in Threads : RunInExecutor(t)) /\ UNCHANGED <<extractVars, selVars, chapVars, fixVars, capVars, rlVars>>
    \/ (\E t \in Threads : wait_if_needed(t)) /\ UNCHANGED <<extractVars, selVars, chapVars, fixVars, capVars, rlVars>>
    \/ (\E t \in Threads : ExtractInfo(t)) /\ UNCHANGED <<extractVars, selVars, chapVars, fixVars, capVars, rlVars>>
    \/ (\E t \in Threads : ManualLoop(t)) /\ UNCHANGED <<extractVars, selVars, chapVars, fixVars, capVars, rlVars>>
    \/ (\E t \in Threads : AutoLoop(t)) /\ UNCHANGED <<extractVars, selVars, chapVars, fixVars, capVars, rlVars>>

InitYt == InitGate /\ InitExtract /\ service = "main" /\ InitSelect /\ InitChapters /\ InitFixed /\ InitCaptions /\ InitLimiter

SpecYt == InitYt /\ [][NextYt]_vars

\* concurrent extract calls of one service against its store
Next ==
    \/ (\E t \in Tasks, u \in Urls : Start(t, u)) /\ UNCHANGED <<gateVars, selVars, chapVars, fixVars, capVars, rlVars>>
    \/ (\E t \in Tasks : Return(t)) /\ UNCHANGED <<gateVars, selVars, chapVars, fixVars, capVars, rlVars>>
    \/ (\E t \in Tasks : CheckCache(t)) /\ UNCHANGED <<gateVars, selVars, chapVars, fixVars, capVars, rlVars>>
    \/ (\E t \in Tasks : MetadataFromApi(t)) /\ UNCHANGED <<gateVars, selVars, chapVars, fixVars, capVars, rlVars>>
    \/ (\E t \in Tasks : MetadataFromYtDlp(t)) /\ UNCHANGED <<gateVars, selVars, chapVars, fixVars, capVars, rlVars>>
    \/ (\E t \in Tasks : TryTranscript(t)) /\ UNCHANGED <<gateVars, selVars, chapVars, fixVars, capVars, rlVars>>
    \/ (\E t \in Tasks : DownloadAudio(t)) /\ UNCHANGED <<gateVars, selVars, chapVars, fixVars, capVars, rlVars>>
    \/ (\E t \in Tasks : TranscribeAudio(t)) /\ UNCHANGED <<gateVars, selVars, chapVars, fixVars, capVars, rlVars>>
    \/ (\E t \in Tasks : SaveContent(t)) /\ UNCHANGED <<gateVars, selVars, chapVars, fixVars, capVars, rlVars>>
    \/ (\E t \in Tasks : SaveChunks(t)) /\ UNCHANGED <<gateVars, selVars, chapVars, fixVars, capVars, rlVars>>
    \/ (\E t \in Tasks : Validate(t)) /\ UNCHANGED <<gateVars, selVars, chapVars, fixVars, capVars, rlVars>>
    \/ (\E t \in Tasks : InfoFromPytube(t)) /\ UNCHANGED <<gateVars, selVars, chapVars, fixVars, capVars, rlVars>>
    \/ (\E t \in Tasks : InfoFromHtml(t)) /\ UNCHANGED <<gateVars, selVars, chapVars, fixVars, capVars, rlVars>>
    \/ (\E t \in Tasks : CheckDuration(t)) /\ UNCHANGED <<gateVars, selVars, chapVars, fixVars, capVars, rlVars>>
    \/ (\E t \in Tasks : ListAndSelect(t)) /\ UNCHANGED <<gateVars, selVars, chapVars, fixVars, capVars, rlVars>>
    \/ (\E t \in Tasks : FetchTranscript(t)) /\ UNCHANGED <<gateVars, selVars, chapVars, fixVars, capVars, rlVars>>
    \/ (\E t \in Tasks : YouTubeExtract(t)) /\ UNCHANGED <<gateVars, selVars, chapVars, fixVars, capVars, rlVars>>
    \/ (\E t \in Tasks : StoreContentLookup(t)) /\ UNCHANGED <<gateVars, selVars, chapVars, fixVars, capVars, rlVars>>
    \/ (\E t \in Tasks : StoreContentInsert(t)) /\ UNCHANGED <<gateVars, selVars, chapVars, fixVars, capVars, rlVars>>
    \/ (\E t \in Tasks : StoreChunks(t)) /\ UNCHANGED <<gateVars, selVars, chapVars, fixVars, capVars, rlVars>>

\* the service is the current ContentExtractor, the one of content_extractor_v2,
\* the /extract endpoint, or the YouTubeExtractor of src/extractors
Services == {"v1", "v2", "main", "legacy"}

Init == InitGate /\ InitExtract /\ service \in Services /\ InitSelect /\ InitChapters /\ InitFixed /\ InitCaptions /\ InitLimiter

Spec == Init /\ [][Next]_vars

\* select_best_transcript, for every list of tracks and every preference
InitSelectCall ==
    /\ InitGate /\ InitExtract /\ service = "legacy" /\ InitChapters /\ InitFixed /\ InitCaptions /\ InitLimiter
    /\ sel_pc = "call"
    /\ sel_transcripts \in TrackSeqs(MaxTracks)
    /\ sel_preferred \in PreferredLists
    /\ sel_allow \in BOOLEAN
    /\ sel_result = NoTrack

NextSelect == Select /\ UNCHANGED <<gateVars, extractVars, chapVars, fixVars, capVars, rlVars>>

SpecSelect == InitSelectCall /\ [][NextSelect]_vars

\* one video through the chunking pipeline of extract_content
InitChaptersCall ==
    /\ InitGate /\ InitExtract /\ service = "main" /\ InitSelect /\ InitFixed /\ InitCaptions /\ InitLimiter
    /\ ch_pc = "extract_chapters"
    /\ ch_description \in Descriptions(MaxLines)
    /\ ch_duration \in VideoDurations
    /\ ch_transcript \in Transcripts
    /\ ch_chapters = <<>>
    /\ ch_info = NoChapters
    /\ ch_args = <<>>
    /\ ch_strategy = "none"
    /\ ch_chunks = <<>>

NextChapters ==
    \/ ExtractChapters /\ UNCHANGED <<gateVars, extractVars, selVars, fixVars, capVars, rlVars>>
    \/ ExtractVideoChapters /\ UNCHANGED <<gateVars, extractVars, selVars, fixVars, capVars, rlVars>>
    \/ ChooseStrategy /\ UNCHANGED <<gateVars, extractVars, selVars, fixVars, capVars, rlVars>>
    \/ ChunkByChapters /\ UNCHANGED <<gateVars, extractVars, selVars, fixVars, capVars, rlVars>>
    \/ ChunkFixedSize /\ UNCHANGED <<gateVars, extractVars, selVars, fixVars, capVars, rlVars>>

SpecChapters == InitChaptersCall /\ [][NextChapters]_vars

\* the two chunkers, each applied to a transcript; the chapter-based one is
\* given the segments that get_chapter_segments makes of a parsed description
InitChunkerCall ==
    /\ InitGate /\ InitExtract /\ service = "main" /\ InitSelect /\ InitFixed /\ InitCaptions /\ InitLimiter
    /\ ch_description \in Descriptions(MaxLines)
    /\ ch_duration \in VideoDurations
    /\ ch_transcript \in Transcripts
    /\ ch_chapters = extract_chapters(ch_description)
    /\ ch_info = NoChapters
    /\ \/ /\ ch_strategy = "chapter_based"
          /\ ch_pc = "chunk_by_chapters"
          /\ ch_args = get_chapter_segments(ch_chapters, ch_duration)
       \/ /\ ch_strategy = "fixed_size"
          /\ ch_pc = "chunk_fixed_size"
          /\ ch_args = <<>>
    /\ ch_chunks = <<>>

NextChunker ==
    \/ ChunkByChapters /\ UNCHANGED <<gateVars, extractVars, selVars, fixVars, capVars, rlVars>>
    \/ ChunkFixedSize /\ UNCHANGED <<gateVars, extractVars, selVars, fixVars, capVars, rlVars>>

SpecChunker == InitChunkerCall /\ [][NextChunker]_vars

\* FixedSizeChunker(chunk_size, overlap).chunk(content, segments, duration)
InitFixedCall ==
    /\ InitGate /\ InitExtract /\ service = "main" /\ InitSelect /\ InitChapters
    /\ InitCaptions /\ InitLimiter
    /\ fx_pc = "split_text"
    /\ fx_self \in {FixedSizeChunker(size, over) : size \in ChunkSizes, over \in Overlaps}
    /\ fx_content \in Contents(MaxSentences, MaxRepeat)
    /\ \/ fx_segments = <<>> /\ fx_duration \in FixDurations
       \/ fx_segments \in CueLists /\ fx_duration = 3000
    /\ fx_text_chunks = <<>>
    /\ fx_timestamps = <<>>
    /\ fx_cursors = <<>>
    /\ fx_chunks = <<>>

NextFixed ==
    \/ SplitText /\ UNCHANGED <<gateVars, extractVars, selVars, chapVars, capVars, rlVars>>
    \/ EstimateTimestamps /\ UNCHANGED <<gateVars, extractVars, selVars, chapVars, capVars, rlVars>>
    \/ ZipChunks /\ UNCHANGED <<gateVars, extractVars, selVars, chapVars, capVars, rlVars>>

SpecFixed == InitFixedCall /\ [][NextFixed]_vars

\* one caption payload, of either shape, through its parser
InitCaptionsCall ==
    /\ InitGate /\ InitExtract /\ service = "main" /\ InitSelect /\ InitChapters
    /\ InitFixed /\ InitLimiter
    /\ \/ /\ cap_shape = "vtt"
          /\ cap_pc = "_parse_vtt_subtitles"
          /\ cap_vtt_content \in Payloads(MaxBlocks)
          /\ cap_transcript_data = <<>>
       \/ /\ cap_shape = "entries"
          /\ cap_pc = "extract_transcript"
          /\ cap_vtt_content = <<>>
          /\ cap_transcript_data \in TranscriptData(MaxBlocks)
    /\ cap_full_text = <<>>
    /\ cap_segments = <<>>

NextCaptions ==
    \/ ParseVtt /\ UNCHANGED <<gateVars, extractVars, selVars, chapVars, fixVars, rlVars>>
    \/ ExtractTranscript /\ UNCHANGED <<gateVars, extractVars, selVars, chapVars, fixVars, rlVars>>

SpecCaptions == InitCaptionsCall /\ [][NextCaptions]_vars

\* calls of _check_rate_limits on one summarizer, as time passes
InitLimiterCall ==
    /\ InitGate /\ InitExtract /\ service = "main" /\ InitSelect /\ InitChapters
    /\ InitFixed /\ InitCaptions
    /\ rl_now = Epoch
    /\ rl_rate_limiter \in {RateLimiter(requests) : requests \in Histories}
    /\ rl_before = <<>>
    /\ rl_at = <<>>
    /\ rl_raised = None
    /\ rl_calls = 0
    /\ rl_ticks = 0

NextLimiter ==
    \/ CheckRateLimits /\ UNCHANGED <<gateVars, extractVars, selVars, chapVars, fixVars, capVars>>
    \/ TimePasses /\ UNCHANGED <<gateVars, extractVars, selVars, chapVars, fixVars, capVars>>

SpecLimiter == InitLimiterCall /\ [][NextLimiter]_vars

----------------------------------------------------------------------------
(* Claims on the rate gate *)

\* C1: every two consecutively recorded grant timestamps of the one shared
\* RateLimiter differ by at least min_interval, whatever the interleaving of
\* the callers' wait_if_needed calls.
C1_GrantsSpaced ==
    \A i \in 1..(Len(grants) - 1) : grants[i + 1] - grants[i] >= MinInterval

OutboundCalls == {"extract_info", "fetch"}

----------------------------------------------------------------------------
(* Claims on extract *)

\* the run r has made step s
Has(r, s) == \E i \in DOMAIN r.steps : r.steps[i] = s

\* the run r made step a, and made it before each of its steps b
Before(r, a, b) ==
    \A j \in DOMAIN r.steps :
        r.steps[j] = b => \E i \in 1..(j - 1) : r.steps[i] = a

\* C2: when the cache lookup for the URL hits, extract returns status=cached at
\* once: the lookup is the only step the run makes (no metadata resolution, no
\* caption step, no download, no transcription, no store) and it writes nothing.
C2_CachedShortCircuits ==
    \A t \in Tasks :
        run[t].cached_hit =>
            /\ pc[t] = "done"
            /\ run[t].status = "cached"
            /\ run[t].steps = <<"check_cache">>
            /\ run[t].rows_written = 0
            /\ run[t].chunks_written = 0

\* a second call for a stored URL has come back from the lookup
C2_Witness ==
    \E t \in Tasks :
        /\ run[t].cached_hit /\ pc[t] = "done"
        /\ run[t].prior # 0
        /\ Len(original_content) = 1

\* C3: an extract(url) begun after a first extract(url) has completed
\* successfully returns status=cached with the content_id of the first call,
\* and writes no Content row and no chunk.
C3_SecondCallCached ==
    \A t \in Tasks :
        (pc[t] = "done" /\ run[t].prior # 0 /\ run[t].status # "error") =>
            /\ run[t].status = "cached"
            /\ run[t].content_id = run[t].prior
            /\ run[t].rows_written = 0
            /\ run[t].chunks_written = 0

\* C4 as stated: every stored Content row has a transcript.
C4_RowsHaveTranscript ==
    \A i \in DOMAIN original_content : original_content[i].raw_content # None

\* C4 amended: a run stores a Content row only after it has resolved metadata
\* and obtained a transcript or a downloaded audio file; a row without a
\* transcript carries the audio file's path, extraction_method yt-dlp_audio and
\* no chunks; a run whose metadata resolution or audio download failed has
\* stored nothing.
C4_RowNeedsTranscriptOrAudio ==
    /\ \A i \in DOMAIN original_content :
         \/ original_content[i].raw_content # None
         \/ /\ original_content[i].audio_file_path # None
            /\ original_content[i].extraction_method = "yt-dlp_audio"
            /\ ChunkCount(original_content[i].id) = 0
    /\ \A t \in Tasks :
         /\ run[t].error \in {"metadata_unavailable", "download_failed"} =>
              run[t].rows_written = 0
         /\ run[t].rows_written > 0 =>
              /\ run[t].metadata # None
              /\ run[t].transcript # None \/ run[t].download = "ok"

\* a run whose transcription gave no text has returned, its row stored
C4_Witness ==
    \E t \in Tasks : \E i \in DOMAIN original_content :
        /\ pc[t] = "done" /\ run[t].status = "success"
        /\ run[t].whisper \in {"empty", "raised"}
        /\ original_content[i].id = run[t].content_id
        /\ original_content[i].raw_content = None
        /\ original_content[i].audio_file_path # None

PlatformProviderSteps == {"youtube_api", "pytube"}
GenericProviderSteps == {"yt_dlp_info", "html"}

\* C6: metadata resolution tries the platform provider first and the first
\* success wins: the generic provider is called only when the platform provider
\* did not succeed (it failed, had no credentials, or was not tried for want of
\* a video id), and after it; when the platform provider succeeds the metadata
\* is its result and the generic provider is not called.
C6_FirstSuccessWins ==
    \A t \in Tasks :
        /\ run[t].primary = "ok" =>
              /\ run[t].metadata \in {"youtube_api", "pytube"}
              /\ \A g \in GenericProviderSteps : ~Has(run[t], g)
        /\ \A g \in GenericProviderSteps :
              Has(run[t], g) =>
                  \/ run[t].primary = "untried"
                     /\ \A p \in PlatformProviderSteps : ~Has(run[t], p)
                  \/ run[t].primary \in {"failed", "no_key", "raised"}
                     /\ \E p \in PlatformProviderSteps : Before(run[t], p, g)
        /\ run[t].fallback = "ok" => run[t].metadata \in {"yt_dlp", "html"}

\* the platform provider failed and the metadata came from the generic one
C6_Witness ==
    \E t \in Tasks :
        /\ run[t].primary \in {"failed", "no_key"}
        /\ run[t].fallback = "ok" /\ run[t].metadata = "yt_dlp"
        /\ run[t].steps = <<"check_cache", "youtube_api", "yt_dlp_info">>

\* C7: when every metadata provider has failed, extract ends with an error
\* outcome there and then: no metadata is returned to it, no later step is
\* made and nothing is stored.
C7_TotalFailureIsError ==
    \A t \in Tasks :
        run[t].fallback \in {"none", "raised"} =>
            /\ pc[t] = "done"
            /\ run[t].status \in {"error", "VIDEO_UNAVAILABLE"}
            /\ run[t].metadata = None
            /\ run[t].steps[Len(run[t].steps)] \in GenericProviderSteps
            /\ run[t].rows_written = 0

----------------------------------------------------------------------------
(* Claims on the store *)

\* C11: no reader observes a Content row whose chunk set is missing or partly
\* written: a cache lookup that finds a row with a transcript finds its whole
\* chunk set with it.
C11_NoPartialVisible ==
    \A t \in Tasks :
        (run[t].cached_hit /\ run[t].has_transcript) =>
            run[t].total_chunks = TextChunks

\* C12: when concurrent extract calls for one new URL have both missed the
\* cache, one Content row exists for the URL once they are done and the calls
\* report the same content_id.
C12_FirstWriterWins ==
    /\ \A u \in Urls : Cardinality(Matches(u)) <= 1
    /\ \A t1, t2 \in Tasks :
         (/\ pc[t1] = "done" /\ pc[t2] = "done"
          /\ run[t1].url = run[t2].url
          /\ run[t1].status \in {"success", "cached"}
          /\ run[t2].status \in {"success", "cached"}) =>
             run[t1].content_id = run[t2].content_id

\* C13: storing a chunk set is a full replace: the chunks stored for one
\* content_id are those of the most recent store_chunks call, and no
\* chunk_index occurs twice among them.
C13_FullReplace ==
    /\ \A c1, c2 \in content_chunks :
         (c1.content_id = c2.content_id /\ c1.chunk_index = c2.chunk_index) => c1 = c2
    /\ \A i \in DOMAIN original_content : ChunkCount(original_content[i].id) <= TextChunks

\* C14: Content is keyed by the URL together with the text: the content_id a
\* successful extract of a URL reports is that of a row of this URL (two
\* different URLs never resolve to one row), which a lookup of the URL finds.
C14_KeyedByUrlAndText ==
    \A t \in Tasks :
        (pc[t] = "done" /\ run[t].status = "success") =>
            /\ original_content[run[t].content_id].original_url = run[t].url
            /\ run[t].content_id \in Matches(run[t].url)

----------------------------------------------------------------------------
(* Claims on select_best_transcript *)

\* the tracks the selection may return: all, or the manual ones when
\* auto-generated tracks are not allowed
Eligible == IF sel_allow THEN sel_transcripts ELSE ManualOnly(sel_transcripts)

\* the tracks of Eligible, manual (gen = FALSE) or auto-generated, in a
\* preferred language
InPreferred(gen) ==
    {i \in DOMAIN Eligible :
        /\ Eligible[i].is_generated = gen
        /\ \E k \in DOMAIN sel_preferred : sel_preferred[k] = Eligible[i].language_code}

\* the place of the language of track x in preferred_languages
Rank(x) == CHOOSE k \in DOMAIN sel_preferred : sel_preferred[k] = x.language_code

\* the result is, of the tracks in set I, one in the earliest preferred language
EarliestPreferred(I) ==
    /\ \E i \in I : sel_result = Eligible[i]
    /\ \A i \in I : Rank(sel_result) <= Rank(Eligible[i])

\* C9 as stated: a track in the language of the hint (the first preferred
\* language), when there is one, decides the language selected; otherwise a
\* manual track is selected in preference to an auto-generated one.
C9_HintThenManual ==
    sel_pc = "returned" =>
        LET hinted == {i \in DOMAIN Eligible :
                          Eligible[i].language_code = sel_preferred[1]}
        IN  /\ hinted # {} => sel_result.language_code = sel_preferred[1]
            /\ (hinted = {} /\ ManualOnly(Eligible) # <<>>) => ~sel_result.is_generated

\* C9 amended: the selection returns a manual track in the earliest preferred
\* language that has one; else an auto-generated track in the earliest
\* preferred language that has one; else the first manual track listed; else
\* the first track listed. The result is one of the eligible tracks, and None
\* only when there is none.
C9_ManualInPreferredFirst ==
    sel_pc = "returned" =>
        /\ sel_result = NoTrack <=> Eligible = <<>>
        /\ sel_result # NoTrack =>
              /\ \E i \in DOMAIN Eligible : sel_result = Eligible[i]
              /\ sel_result.is_generated => sel_allow
        /\ Eligible # <<>> =>
              IF InPreferred(FALSE) # {} THEN EarliestPreferred(InPreferred(FALSE))
              ELSE IF InPreferred(TRUE) # {} THEN EarliestPreferred(InPreferred(TRUE))
              ELSE IF ManualOnly(Eligible) # <<>> THEN sel_result = ManualOnly(Eligible)[1]
              ELSE sel_result = Eligible[1]

\* an auto-generated track in the hint's language was there, and the selection
\* returned a manual track in a later preferred language
C9_Witness ==
    /\ sel_pc = "returned"
    /\ \E i \in DOMAIN Eligible :
          Eligible[i].language_code = sel_preferred[1] /\ Eligible[i].is_generated
    /\ ~sel_result.is_generated
    /\ Len(sel_preferred) > 1 /\ sel_result.language_code = sel_preferred[2]

----------------------------------------------------------------------------
(* Claims on chunking *)

\* C15: for both chunking strategies the emitted chunks have chunk_index
\* exactly 0..N-1 in emission order, with no gaps and no duplicates, also when
\* the chapter-based strategy skips chapters that have no matching segment.
C15_IndexDense ==
    ch_pc = "done" =>
        \A k \in DOMAIN ch_chunks : ch_chunks[k].chunk_index = k - 1

----------------------------------------------------------------------------
(* Claims on ChapterExtractor *)

Parsed == ch_pc # "extract_chapters" /\ ch_pc # "idle"

\* C16: the chapter list returned for a description tiles the timeline: each
\* chapter but the last ends where the next one starts, and the end of the
\* last is left open, also when candidate lines were discarded as too close.
C16_ChaptersTile ==
    Parsed /\ ch_chapters # <<>> =>
        /\ \A i \in 1..(Len(ch_chapters) - 1) :
               ch_chapters[i].end_seconds = <<ch_chapters[i + 1].start_seconds>>
        /\ ch_chapters[Len(ch_chapters)].end_seconds = <<>>

\* C17: in every returned chapter list each chapter starts at least 10 seconds
\* after the chapter accepted before it, so the starts increase strictly,
\* whatever the order and spacing of the lines of the description.
C17_TenSecondsApart ==
    Parsed =>
        \A i \in 1..(Len(ch_chapters) - 1) :
            ch_chapters[i + 1].start_seconds >= ch_chapters[i].start_seconds + 10

\* chapters were returned although a candidate line that parsed was discarded
C17_Witness ==
    /\ Parsed
    /\ Len(ch_chapters) >= 2
    /\ Len(ParseLines(ch_description)) > Len(ch_chapters)

----------------------------------------------------------------------------
(* Claims on the strategy selection of extract_content *)

\* the three conditions: at least 2 chapters, duration of 600 s or more, the
\* last chapter's start at 50% of the duration or later
UsabilityGate(chapters, video_duration) ==
    /\ Len(chapters) >= 2
    /\ video_duration >= 600
    /\ 2 * chapters[Len(chapters)].start_seconds >= video_duration

Chosen == ch_pc \in {"chunk_by_chapters", "chunk_fixed_size", "done"}

\* C18: the usability gate is true iff there are at least 2 chapters, the
\* duration is 600 s or more and the last chapter starts at 50% of the duration
\* or later; the parser's gate and the gate the chunker consults both give
\* this answer.
C18_GatesAgree ==
    Chosen /\ ch_info.has_chapters =>
        /\ ch_info.should_use_chapters = UsabilityGate(ch_chapters, ch_duration)
        /\ (ch_strategy = "chapter_based") = UsabilityGate(ch_chapters, ch_duration)

\* C19: the pipeline chunks by chapters iff the parser's usability gate passed
\* for the parsed chapters and the duration, and by fixed windows otherwise;
\* 0:00 Intro / 5:30 Setup / 45:00 Conclusion with duration 3000 give 3 chapters
\* with ends 330, 2700, 3000 and chunk by chapters; a 400 s video with one
\* chapter line gives 0 chapters and is chunked by fixed windows.
C19_StrategyFollowsGate ==
    Chosen =>
        /\ (ch_strategy = "chapter_based")
               = extractor_should_use_chapters(ch_chapters, ch_duration)
        /\ ch_strategy \in {"chapter_based", "fixed_size"}
        /\ (ch_description = <<LINE_INTRO, LINE_SETUP, LINE_CONCLUSION>>
            /\ ch_duration = 3000) =>
               /\ Len(ch_chapters) = 3
               /\ [i \in 1..3 |-> ch_info.segments[i].end_time]
                      = <<<<330>>, <<2700>>, <<3000>>>>
               /\ ch_strategy = "chapter_based"
        /\ (Len(ch_description) = 1 /\ ch_duration = 400) =>
               /\ ch_chapters = <<>>
               /\ ch_strategy = "fixed_size"

\* the segments whose start lies in [start_seconds, end) of a chapter, the end
\* of the last chapter being the duration
SegmentsOf(chapter) ==
    LET end == IF chapter.end_seconds = <<>> THEN ch_duration
               ELSE chapter.end_seconds[1]
    IN  SelectSeq(ch_transcript,
                  LAMBDA seg : chapter.start_seconds <= seg.start /\ seg.start < end)

\* C20: chunking by chapters, as wired through extract_content, emits for each
\* chapter with a matching segment one chunk: its text is that of the segments
\* starting in [chapter.start, chapter.end), in order, its timestamps are the
\* chapter's start and end (the duration for the last), its title the
\* chapter's; no segment's text is in two chunks and no chunk is empty.
C20_ChunkPerChapter ==
    ch_pc = "done" /\ ch_strategy = "chapter_based" =>
        LET nonempty == SelectSeq(ch_chapters, LAMBDA c : SegmentsOf(c) # <<>>)
        IN  /\ Len(ch_chunks) = Len(nonempty)
            /\ \A k \in DOMAIN ch_chunks :
                   /\ ch_chunks[k].chunk_text = Texts(SegmentsOf(nonempty[k]))
                   /\ ch_chunks[k].start_timestamp = nonempty[k].start_seconds
                   /\ ch_chunks[k].end_timestamp =
                          (IF nonempty[k].end_seconds = <<>> THEN ch_duration
                           ELSE nonempty[k].end_seconds[1])
                   /\ ch_chunks[k].chapter_title = nonempty[k].title
                   /\ ch_chunks[k].chunk_text # <<>>
            /\ \A k1, k2 \in DOMAIN ch_chunks :
                   (\E i \in DOMAIN ch_chunks[k1].chunk_text,
                       j \in DOMAIN ch_chunks[k2].chunk_text :
                        ch_chunks[k1].chunk_text[i] = ch_chunks[k2].chunk_text[j])
                   => k1 = k2

----------------------------------------------------------------------------
(* Claims on FixedSizeChunker.split_text *)

SplitDone == fx_pc \in {"estimate_timestamps", "zip", "done"}

\* the last n sentences of a chunk
Trailing(chunk, n) == SubSeq(chunk, Len(chunk) - n + 1, Len(chunk))

\* the number of sentences chunk k carried over from chunk k - 1: the longest
\* trailing run of chunk k - 1 whose units sum to the overlap or less
CarriedOver(k) ==
    IF k = 1 THEN 0
    ELSE LET prev == fx_text_chunks[k - 1]
             fits == {n \in 0..Len(prev) : Units(Trailing(prev, n)) <= fx_self.overlap}
         IN  CHOOSE n \in fits : \A m \in fits : m <= n

\* the sentences of chunk k that it did not carry over
NewSentences(k) ==
    SubSeq(fx_text_chunks[k], CarriedOver(k) + 1, Len(fx_text_chunks[k]))

RECURSIVE Concat(_, _)
Concat(k, n) == IF k > n THEN <<>> ELSE NewSentences(k) \o Concat(k + 1, n)

\* C21: the chunks' sentences, in order, without the sentences that each chunk
\* but the first carried over from the chunk before it, are exactly the
\* sentences of the content: none lost, none reordered, and the only
\* duplicates are the carried-over ones.
C21_RoundTrip ==
    SplitDone =>
        /\ \A k \in DOMAIN fx_text_chunks : CarriedOver(k) <= Len(fx_text_chunks[k])
        /\ Concat(1, Len(fx_text_chunks)) = re_split(fx_content)

\* a content was split into several chunks and one of them carried sentences over
C21_Witness ==
    /\ SplitDone
    /\ Len(fx_text_chunks) >= 3
    /\ \E k \in DOMAIN fx_text_chunks : CarriedOver(k) >= 1

\* C22: chunking the empty content gives zero chunks and raises nothing, with
\* segments and without.
C22_EmptyContentNoChunks ==
    fx_pc = "done" /\ fx_content = <<>> => fx_chunks = <<>>

Oversize(sentence) == sentence.units > fx_self.chunk_size

\* C23: a sentence whose units alone exceed chunk_size is kept whole and is
\* emitted as its own chunk: no other sentence shares that chunk.
C23_OversizeAlone ==
    SplitDone =>
        /\ \A i \in DOMAIN fx_content :
               Oversize(fx_content[i]) =>
                   \E k \in DOMAIN fx_text_chunks :
                       \E j \in DOMAIN fx_text_chunks[k] :
                           fx_text_chunks[k][j] = fx_content[i]
        /\ \A k \in DOMAIN fx_text_chunks :
               (\E j \in DOMAIN fx_text_chunks[k] : Oversize(fx_text_chunks[k][j]))
                   => Len(fx_text_chunks[k]) = 1

\* C23, amended: a sentence whose units alone exceed chunk_size is kept whole
\* and is the only new sentence of the chunk that receives it; that chunk holds
\* besides it only the sentences carried over from the chunk before.
C23_OversizeOnlyNew ==
    SplitDone =>
        /\ \A i \in DOMAIN fx_content :
               Oversize(fx_content[i]) =>
                   \E k \in DOMAIN fx_text_chunks :
                       \E j \in DOMAIN NewSentences(k) :
                           NewSentences(k)[j] = fx_content[i]
        /\ \A k \in DOMAIN fx_text_chunks :
               (\E j \in DOMAIN NewSentences(k) : Oversize(NewSentences(k)[j]))
                   => Len(NewSentences(k)) = 1

\* an oversize sentence was put into a chunk after sentences carried over
C23_Witness ==
    /\ SplitDone
    /\ \E k \in DOMAIN fx_text_chunks :
           /\ CarriedOver(k) >= 1
           /\ Len(fx_text_chunks[k]) > CarriedOver(k)
           /\ Oversize(fx_text_chunks[k][Len(fx_text_chunks[k])])

\* C29: when a chunk is closed the next buffer is seeded with the trailing run
\* of its sentences whose units sum to the overlap or less, and then receives a
\* sentence that is not of the seed: every chunk has a new sentence and there
\* are never more chunks than sentences, for every chunk_size and overlap.
C29_OverlapMakesProgress ==
    SplitDone =>
        /\ \A k \in DOMAIN fx_text_chunks :
               /\ Len(fx_text_chunks[k]) > CarriedOver(k)
               /\ k > 1 => SubSeq(fx_text_chunks[k], 1, CarriedOver(k))
                               = Trailing(fx_text_chunks[k - 1], CarriedOver(k))
        /\ Len(fx_text_chunks) <= Len(re_split(fx_content))

\* chunks were closed and seeded under an overlap as large as chunk_size
C29_Witness ==
    /\ SplitDone
    /\ fx_self.overlap >= fx_self.chunk_size
    /\ Len(fx_text_chunks) >= 3
    /\ \E k \in DOMAIN fx_text_chunks : CarriedOver(k) >= 2

----------------------------------------------------------------------------
(* Claims on FixedSizeChunker.estimate_timestamps *)

Estimated == fx_pc \in {"zip", "done"}

\* the cursor when the k-th chunk is matched
CursorAt(k) == IF k = 1 THEN 1 ELSE fx_cursors[k - 1]

\* the segments of the lookahead window at the cursor that share a word with
\* the k-th chunk
Matching(k) ==
    {i \in CursorAt(k)..Min(CursorAt(k) + lookahead - 1, Len(fx_segments)) :
        chunk_words(fx_text_chunks[k]) \cap Range(fx_segments[i].text) # {}}

\* C28: with segments, the start of a chunk is the start of the first segment
\* of the lookahead window at the cursor that shares a word with it, and its
\* end is the end (start + duration) of the last such segment.
C28_AnchoredOnMatches ==
    Estimated /\ fx_segments # <<>> =>
        \A k \in DOMAIN fx_timestamps :
            Matching(k) # {} =>
                LET first == CHOOSE i \in Matching(k) : \A j \in Matching(k) : i <= j
                    last == CHOOSE i \in Matching(k) : \A j \in Matching(k) : j <= i
                IN  /\ fx_timestamps[k][1] = fx_segments[first].start
                    /\ fx_timestamps[k][2]
                           = fx_segments[last].start + fx_segments[last].duration

\* C30: timestamps are well-formed in both branches. With segments the cursor
\* never moves backwards and stays in the segment list, each chunk has start <=
\* end and the starts do not decrease; with no segments consecutive chunks abut,
\* the first starts at 0 and the last ends at the duration.
C30_TimestampsWellFormed ==
    Estimated =>
        /\ \A k \in DOMAIN fx_timestamps : fx_timestamps[k][1] <= fx_timestamps[k][2]
        /\ \A k \in 2..Len(fx_timestamps) :
               fx_timestamps[k - 1][1] <= fx_timestamps[k][1]
        /\ fx_segments # <<>> =>
               /\ \A k \in DOMAIN fx_cursors : fx_cursors[k] \in DOMAIN fx_segments
               /\ \A k \in DOMAIN fx_cursors : CursorAt(k) <= fx_cursors[k]
        /\ fx_segments = <<>> =>
               /\ \A k \in 2..Len(fx_timestamps) :
                      fx_timestamps[k - 1][2] = fx_timestamps[k][1]
               /\ fx_timestamps[1][1] = 0
               /\ fx_timestamps[Len(fx_timestamps)][2] = fx_duration

----------------------------------------------------------------------------
(* Claims on caption parsing *)

\* a timestamp string that _parse_vtt_timestamp can read
WellFormed(timestamp) ==
    /\ Len(timestamp) \in 1..3
    /\ \A k \in DOMAIN timestamp : timestamp[k] # <<>>

\* a block with one valid time range "start --> end" and text under it
ValidCue(block) ==
    /\ block.arrows = 1
    /\ WellFormed(block.start_str)
    /\ block.end_str # <<>> /\ WellFormed(block.end_str[1])
    /\ remove_tags(block.text_lines) # <<>>

\* C24: the segments of a payload are exactly its blocks with a valid
\* arrow-separated time range and non-empty text, in input order, with their
\* parsed start and duration; a block whose time range is missing or malformed
\* gives no segment and leaves the segments of the valid cues as they are.
C24_OnlyValidCues ==
    cap_pc = "done" /\ cap_shape = "vtt" =>
        LET valid == SelectSeq(cap_vtt_content, ValidCue)
        IN  /\ Len(cap_segments) = Len(valid)
            /\ \A k \in DOMAIN cap_segments :
                   /\ cap_segments[k].text = remove_tags(valid[k].text_lines)
                   /\ cap_segments[k].start = _parse_vtt_timestamp(valid[k].start_str)
                   /\ cap_segments[k].duration =
                          _parse_vtt_timestamp(valid[k].end_str[1])
                              - _parse_vtt_timestamp(valid[k].start_str)

\* C25: no parsed segment and no full text has a bracketed annotation token
\* left in it, for cue blocks and for transcript entries; a segment made of
\* annotations only is dropped.
C25_NoAnnotationLeft ==
    cap_pc = "done" =>
        /\ \A k \in DOMAIN cap_segments :
               /\ cap_segments[k].text # <<>>
               /\ \A j \in DOMAIN cap_segments[k].text :
                      cap_segments[k].text[j] \notin Annotations
        /\ \A j \in DOMAIN cap_full_text : cap_full_text[j] \notin Annotations

----------------------------------------------------------------------------
(* Claims on YouTubeExtractor.extract *)

\* the steps of extract that come after the metadata
TranscriptSteps == {"list_transcripts", "fetch_transcript"}

\* every metadata provider has failed for the video of the run
MetadataUnavailable(r) == r.primary = "raised" /\ r.fallback = "none"

\* C26: extract reports the first failing check in the order URL validation,
\* video id, metadata, duration limit, transcript listing, selection, fetch,
\* and makes no later step after a failure: an invalid URL gives INVALID_URL
\* with no metadata or transcript call, unavailable metadata gives
\* VIDEO_UNAVAILABLE, a duration above max_video_duration gives
\* DURATION_EXCEEDED with no transcript listing, and SUCCESS is returned only
\* when every check passed and the content is not empty.
C26_FirstFailingCheck ==
    \A t \in Tasks :
        (service = "legacy" /\ pc[t] = "done") =>
            /\ ~ValidYouTubeUrl(run[t].url) =>
                   /\ run[t].status = "INVALID_URL"
                   /\ run[t].steps = <<"validate_youtube_url">>
            /\ MetadataUnavailable(run[t]) =>
                   /\ run[t].status = "VIDEO_UNAVAILABLE"
                   /\ \A s \in TranscriptSteps : ~Has(run[t], s)
            /\ run[t].duration > max_video_duration =>
                   /\ run[t].status = "DURATION_EXCEEDED"
                   /\ \A s \in TranscriptSteps : ~Has(run[t], s)
            /\ run[t].status = "SUCCESS" =>
                   /\ ValidYouTubeUrl(run[t].url)
                   /\ ~MetadataUnavailable(run[t])
                   /\ run[t].duration <= max_video_duration
                   /\ run[t].caption = "text" /\ run[t].transcript # None

----------------------------------------------------------------------------
(* Claims on DeepSeekSummarizer._check_rate_limits *)

\* how many of the requests lie in the last span seconds before clock
InLast(requests, clock, span) ==
    Cardinality({i \in DOMAIN requests : requests[i] > clock - span})

\* how many of the requests lie in the 60 seconds that begin at time a
InWindow(requests, a) ==
    Cardinality({i \in DOMAIN requests : a <= requests[i] /\ requests[i] < a + 60})

\* C27: a call is admitted if and only if fewer than max_per_minute recorded
\* requests lie in the last 60 seconds and fewer than max_per_hour in the last
\* hour; an admitted request is recorded exactly once, a rejected one raises
\* RateLimitError and is not recorded; so no window of 60 seconds (its end
\* excluded) holds more than max_per_minute recorded requests.
C27_SlidingWindow ==
    /\ rl_at # <<>> =>
          LET at == rl_at[1]
              kept == SelectSeq(rl_before, LAMBDA r : r > at - 3600)
              admitted == /\ InLast(rl_before, at, 60) < max_per_minute
                          /\ InLast(rl_before, at, 3600) < max_per_hour
          IN  /\ rl_raised = None <=> admitted
              /\ admitted => rl_rate_limiter.requests = Append(kept, at)
              /\ ~admitted => rl_rate_limiter.requests = kept
    /\ \A a \in Range(rl_rate_limiter.requests) :
           InWindow(rl_rate_limiter.requests, a) <= max_per_minute

\* a call was rejected for the minute limit that calls admitted before it, at
\* the same time, had filled
C27_Witness ==
    /\ rl_at # <<>>
    /\ rl_raised = "too many requests per minute"
    /\ rl_rate_limiter.requests = rl_before
    /\ InLast(rl_before, rl_at[1], 60) = max_per_minute
    /\ rl_before[Len(rl_before)] = rl_at[1]

====
